---- MODULE Spec2Model ----
(***************************************************************************)
(* Procedural map generation of magog: the sparse grid (world/src/map.rs), *)
(* vault placement, region analysis, tunnel search, and the world          *)
(* assembly of world/src/worldgen.rs.                                      *)
(***************************************************************************)
EXTENDS Integers, Sequences, FiniteSets, TLC

VARIABLES
    map,        \* Map.contents of the level under construction
    room,       \* the vault handed to the last place_room / place_room_at
    offset,     \* the offset of the last place_room_at
    pc,         \* position of the map program: idle, join, tunnel, done, panic
    ret,        \* join_disjoint_regions: the working clone
    open,       \* find_tunnel: open set, coordinate -> map snapshot
    closed,     \* find_tunnel: closed set
    p1,         \* find_tunnel: start
    p2,         \* find_tunnel: goal
    result,     \* what join_disjoint_regions returned: None or Some(map)
    rpc,        \* new_plain_room: position (start, loop, done)
    rw,         \* new_plain_room: w
    rh,         \* new_plain_room: h
    rx,         \* new_plain_room: x of the inner loop
    ry,         \* new_plain_room: y of the outer loop
    rret,       \* new_plain_room: the map being built
    world,      \* Worldgen::new: the Worldgen under construction (ret)
    rng,        \* Worldgen::new: the generator threaded through the stages
    entrance,   \* Worldgen::new: cave_entrance, where the next level hangs
    depth,      \* Worldgen::new: depth of the sector loop
    digger,     \* the SectorDigger bound to the sector of this depth
    trace,      \* the callbacks the driver has made on this digger
    whs,        \* iteration order of the hash containers of this construction
    gen,        \* test_determinism: the world constructed before
    ghs,        \* iteration order the containers had while gen was built
    run,        \* test_determinism: constructions compared so far
    wpc         \* Worldgen::new: new, sector, dig, dug, done, panic

mapvars == <<map, room, offset, pc, ret, open, closed, p1, p2, result>>

roomvars == <<rpc, rw, rh, rx, ry, rret>>

worldvars == <<world, rng, entrance, depth, digger, trace, whs, gen, ghs, run, wpc>>

vars == <<mapvars, roomvars, worldvars>>

----------------------------------------------------------------------------
(* Bounds of the model *)

BaseW == 5
BaseH == 2
Margin == 1
MaxSide == 2
MaxHashSeed == 2
MaxDug == 2
MaxFloor == 3
TallH == 4
MaxSeed == 7
MaxDepth == 2
MaxCalls == 5
MaxRuns == 1
SectorW == 3
SectorH == 2

(* Program constants *)

RoomMin == 2
RoomEnd == 8
DepthEnd == 11
SpawnClearRange == 12
SpawnQuota == 20
VaultMin == 3
VaultEnd == 10

----------------------------------------------------------------------------
(* Coordinates: calx CellVector, Dir6 and the neighbourhoods *)

Add(p, q) == <<p[1] + q[1], p[2] + q[2]>>

Sub(p, q) == <<p[1] - q[1], p[2] - q[2]>>

Abs(n) == IF n < 0 THEN -n ELSE n

Max2(a, b) == IF a < b THEN b ELSE a

Dir6 == <<"North", "Northeast", "Southeast", "South", "Southwest", "Northwest">>

DirVec(d) ==
    CASE d = "North" -> <<-1, -1>>
      [] d = "Northeast" -> <<0, -1>>
      [] d = "Southeast" -> <<1, 0>>
      [] d = "South" -> <<1, 1>>
      [] d = "Southwest" -> <<0, 1>>
      [] d = "Northwest" -> <<-1, 0>>

Dirs == {Dir6[i] : i \in 1..6}

is_fake_isometric(d) == d \notin {"North", "South"}

hex_neighbors(p) == {Add(p, DirVec(d)) : d \in Dirs}

taxicab_neighbors(p) == {Add(p, DirVec(d)) : d \in {e \in Dirs : is_fake_isometric(e)}}

hex_dist(v) ==
    IF (v[1] >= 0) = (v[2] >= 0) THEN Max2(Abs(v[1]), Abs(v[2]))
    ELSE Abs(v[1]) + Abs(v[2])

----------------------------------------------------------------------------
(* Iteration order of the hash containers: a HashMap / HashSet enumerates   *)
(* its keys in an order fixed by the per-container hash state hs.           *)

HashSeeds == 0..MaxHashSeed

HashKey(p, hs) ==
    (((p[1] + 16) * (2 * hs + 3) + (p[2] + 16) * (5 * hs + 7) + hs) % 13) * 4096
        + (IF hs % 2 = 0 THEN 1 ELSE -1) * ((p[1] + 16) * 64 + (p[2] + 16)) + 2048

HashFirst(S, hs) == CHOOSE p \in S : \A q \in S : HashKey(p, hs) <= HashKey(q, hs)

\* the keys of S in the order the container yields them
RECURSIVE HashIter(_, _)
HashIter(S, hs) ==
    IF S = {} THEN <<>>
    ELSE LET p == HashFirst(S, hs) IN <<p>> \o HashIter(S \ {p}, hs)

----------------------------------------------------------------------------
(* Sorting, as the code sorts: by (x, y), and stably by a distance key *)

LessXY(a, b) == a[1] < b[1] \/ (a[1] = b[1] /\ a[2] < b[2])

RECURSIVE InsertXY(_, _)
InsertXY(s, v) ==
    IF s = <<>> THEN <<v>>
    ELSE IF LessXY(v, s[Len(s)]) THEN Append(InsertXY(SubSeq(s, 1, Len(s) - 1), v), s[Len(s)])
    ELSE Append(s, v)

RECURSIVE SortXY(_)
SortXY(s) ==
    IF s = <<>> THEN <<>>
    ELSE InsertXY(SortXY(SubSeq(s, 1, Len(s) - 1)), s[Len(s)])

RECURSIVE InsertDist(_, _, _)
InsertDist(s, v, goal) ==
    IF s = <<>> THEN <<v>>
    ELSE IF hex_dist(Sub(v, goal)) < hex_dist(Sub(s[Len(s)], goal))
         THEN Append(InsertDist(SubSeq(s, 1, Len(s) - 1), v, goal), s[Len(s)])
    ELSE Append(s, v)

RECURSIVE SortDist(_, _)
SortDist(s, goal) ==
    IF s = <<>> THEN <<>>
    ELSE InsertDist(SortDist(SubSeq(s, 1, Len(s) - 1), goal), s[Len(s)], goal)

RECURSIVE LessSeqXY(_, _)
LessSeqXY(a, b) ==
    IF a = <<>> THEN b # <<>>
    ELSE IF b = <<>> THEN FALSE
    ELSE IF a[1] = b[1] THEN LessSeqXY(Tail(a), Tail(b))
    ELSE LessXY(a[1], b[1])

RECURSIVE InsertSeqXY(_, _)
InsertSeqXY(s, v) ==
    IF s = <<>> THEN <<v>>
    ELSE IF LessSeqXY(v, s[Len(s)])
         THEN Append(InsertSeqXY(SubSeq(s, 1, Len(s) - 1), v), s[Len(s)])
    ELSE Append(s, v)

RECURSIVE SortSeqXY(_)
SortSeqXY(s) ==
    IF s = <<>> THEN <<>>
    ELSE InsertSeqXY(SortSeqXY(SubSeq(s, 1, Len(s) - 1)), s[Len(s)])

----------------------------------------------------------------------------
(* MapCell *)

blocks_walk(t) == t \notin {"Ground", "Door", "Exit", "Entrance"}

DefaultCell == [terrain |-> "Empty", spawns |-> <<>>, can_dig |-> TRUE, vault_kind |-> "None"]

new_terrain(t) == [DefaultCell EXCEPT !.terrain = t]

new_bumper == DefaultCell

is_walkable(c) == ~blocks_walk(c.terrain)

is_border(c) == c.vault_kind = "Border"

is_interior(c) == c.vault_kind = "Interior"

is_bumper(c) == c.terrain = "Empty" /\ c.can_dig

to_door(c) == [c EXCEPT !.terrain = "Door"]

undiggable(c) == [c EXCEPT !.can_dig = FALSE]

border(c) == [c EXCEPT !.vault_kind = "Border"]

interior(c) == [c EXCEPT !.vault_kind = "Interior"]

----------------------------------------------------------------------------
(* Map: construction and primitive operations *)

EmptyMap == [p \in {} |-> DefaultCell]

contains(m, pos) == pos \in DOMAIN m

insert(m, pos, value) == [q \in (DOMAIN m) \cup {pos} |-> IF q = pos THEN value ELSE m[q]]

new_base(points) == [p \in points |-> DefaultCell]

\* new_plain_room with the corners left diggable
PlainRoomCellSoftCorners(w, h, p) ==
    IF p[1] = -1 \/ p[1] = w \/ p[2] = -1 \/ p[2] = h
    THEN border(new_terrain("Wall"))
    ELSE interior(new_terrain("Ground"))

PlainRoomCell(w, h, p) ==
    LET x_wall == p[1] = -1 \/ p[1] = w
        y_wall == p[2] = -1 \/ p[2] = h
    IN  IF x_wall \/ y_wall
        THEN IF ~(x_wall /\ y_wall) THEN border(new_terrain("Wall"))
             ELSE border(undiggable(new_terrain("Wall")))
        ELSE interior(new_terrain("Ground"))

new_plain_room(w, h) == [p \in (-1..w) \X (-1..h) |-> PlainRoomCell(w, h, p)]

(* new_vault: the ASCII glyph grammar.  A textmap is a sequence of rows, a   *)
(* row a sequence of one-character strings; DenseTextMap gives each         *)
(* non-blank glyph the coordinate (column, row), counted from 0.            *)

Prefab(textmap) ==
    LET pts == {q \in (0..15) \X (0..15) :
                   /\ q[2] + 1 <= Len(textmap)
                   /\ q[1] + 1 <= Len(textmap[q[2] + 1])
                   /\ textmap[q[2] + 1][q[1] + 1] # " "}
    IN  [q \in pts |-> textmap[q[2] + 1][q[1] + 1]]

Glyphs == {" ", "_", "%", "#", ".", ">", "<", "~", "I", "+", "a"}

VaultCell(c, is_border_pos) ==
    LET cell == interior(DefaultCell) IN
    CASE c = "_" -> new_bumper
      [] c = "%" -> [cell EXCEPT !.can_dig = FALSE]
      [] c = "#" -> IF is_border_pos
                    THEN [cell EXCEPT !.terrain = "Wall", !.can_dig = FALSE, !.vault_kind = "Border"]
                    ELSE [cell EXCEPT !.terrain = "Wall"]
      [] c = "." -> [cell EXCEPT !.terrain = "Ground"]
      [] c = ">" -> [cell EXCEPT !.terrain = "Exit"]
      [] c = "<" -> [cell EXCEPT !.terrain = "Entrance"]
      [] c = "~" -> [cell EXCEPT !.terrain = "Water"]
      [] c = "I" -> [cell EXCEPT !.terrain = "Pillar"]
      [] c = "+" -> IF is_border_pos
                    THEN [cell EXCEPT !.terrain = "Wall", !.vault_kind = "Border"]
                    ELSE [cell EXCEPT !.terrain = "Door"]
      [] c = "a" -> [cell EXCEPT !.terrain = "Ground", !.spawns = <<"dreg">>]

\* Ok(map), or Err when a glyph is outside the grammar
new_vault(textmap) ==
    LET prefab == Prefab(textmap)
        kept == {q \in DOMAIN prefab : prefab[q] # " "}
    IN  IF \E q \in DOMAIN prefab : prefab[q] \notin Glyphs
        THEN [ok |-> FALSE, map |-> EmptyMap]
        ELSE [ok |-> TRUE,
              map |-> [q \in kept |->
                          VaultCell(prefab[q],
                                    ~(\A n \in hex_neighbors(q) : n \in DOMAIN prefab))]]

----------------------------------------------------------------------------
(* Queries with stable result order *)

\* A predicate of find_positions is given by the positions of the map it
\* holds at.

\* the iterator chain of find_positions before the sort: the keys in the
\* order the hash map yields them, filtered by the predicate
FilterPositions(keys, P) ==
    CHOOSE r \in {SelectSeq(keys, LAMBDA pos : pos \in S) : S \in {P}} : TRUE

\* find_positions without the sort
find_positions_unsorted(m, P, hs) == FilterPositions(HashIter(DOMAIN m, hs), P)

find_positions(m, P, hs) == SortXY(FilterPositions(HashIter(DOMAIN m, hs), P))

IsEntrance(m) == {pos \in DOMAIN m : m[pos].terrain = "Entrance"}

IsExit(m) == {pos \in DOMAIN m : m[pos].terrain = "Exit"}

IsOpenGround(m) == {pos \in DOMAIN m : is_walkable(m[pos]) /\ ~is_border(m[pos])}

entrances(m, hs) == find_positions(m, IsEntrance(m), hs)

exits(m, hs) == find_positions(m, IsExit(m), hs)

open_ground(m, hs) == find_positions(m, IsOpenGround(m), hs)

----------------------------------------------------------------------------
(* Vault placement *)

\* is_valid_placement's loop body without the test for existing interior
PlacementRejectsNoInterior(m, off, rm, p) ==
    LET c == rm[p]
        pos == Add(off, p)
    IN  IF ~contains(m, pos)
        THEN is_walkable(c) \/ is_bumper(c)
        ELSE is_interior(c) /\ ~m[pos].can_dig

\* is_valid_placement's loop body without the check for doors in a row
PlacementRejectsDoorsInRow(m, off, rm, p) ==
    LET c == rm[p]
        pos == Add(off, p)
    IN  IF ~contains(m, pos)
        THEN is_walkable(c) \/ is_bumper(c)
        ELSE LET existing == m[pos] IN
             \/ is_interior(existing)
             \/ (is_interior(c) /\ ~existing.can_dig)
             \/ /\ is_border(c)
                /\ IF is_border(existing)
                   THEN existing.terrain # c.terrain
                   ELSE \E n \in taxicab_neighbors(p) :
                            /\ ~contains(rm, n)
                            /\ contains(m, Add(off, n))
                            /\ is_border(m[Add(off, n)])

\* is_valid_placement's loop body fusing borders of any terrain
PlacementRejectsFuseAny(m, off, rm, p) ==
    LET c == rm[p]
        pos == Add(off, p)
    IN  IF ~contains(m, pos)
        THEN is_walkable(c) \/ is_bumper(c)
        ELSE LET existing == m[pos] IN
             \/ is_interior(existing)
             \/ (is_interior(c) /\ ~existing.can_dig)
             \/ /\ is_border(c)
                /\ \/ /\ ~is_border(existing)
                      /\ \E n \in taxicab_neighbors(p) :
                               /\ ~contains(rm, n)
                               /\ contains(m, Add(off, n))
                               /\ is_border(m[Add(off, n)])
                   \/ /\ is_walkable(existing)
                      /\ c.can_dig
                      /\ \E n \in hex_neighbors(p) :
                             /\ contains(rm, n)
                             /\ is_border(rm[n])
                             /\ rm[n].can_dig
                             /\ contains(m, Add(off, n))
                             /\ is_walkable(m[Add(off, n)])

\* is_valid_placement's loop body letting interior go on no-dig area
PlacementRejectsInteriorOnNoDig(m, off, rm, p) ==
    LET c == rm[p]
        pos == Add(off, p)
    IN  IF ~contains(m, pos)
        THEN is_walkable(c) \/ is_bumper(c)
        ELSE LET existing == m[pos] IN
             \/ is_interior(existing)
             \/ /\ is_border(c)
                /\ \/ IF is_border(existing)
                      THEN existing.terrain # c.terrain
                      ELSE \E n \in taxicab_neighbors(p) :
                               /\ ~contains(rm, n)
                               /\ contains(m, Add(off, n))
                               /\ is_border(m[Add(off, n)])
                   \/ /\ is_walkable(existing)
                      /\ c.can_dig
                      /\ \E n \in hex_neighbors(p) :
                             /\ contains(rm, n)
                             /\ is_border(rm[n])
                             /\ rm[n].can_dig
                             /\ contains(m, Add(off, n))
                             /\ is_walkable(m[Add(off, n)])

\* is_valid_placement's loop body letting a bumper hang outside the grid
PlacementRejectsBumperOutside(m, off, rm, p) ==
    LET c == rm[p]
        pos == Add(off, p)
    IN  IF ~contains(m, pos)
        THEN is_walkable(c)
        ELSE LET existing == m[pos] IN
             \/ is_interior(existing)
             \/ (is_interior(c) /\ ~existing.can_dig)
             \/ /\ is_border(c)
                /\ \/ IF is_border(existing)
                      THEN existing.terrain # c.terrain
                      ELSE \E n \in taxicab_neighbors(p) :
                               /\ ~contains(rm, n)
                               /\ contains(m, Add(off, n))
                               /\ is_border(m[Add(off, n)])
                   \/ /\ is_walkable(existing)
                      /\ c.can_dig
                      /\ \E n \in hex_neighbors(p) :
                             /\ contains(rm, n)
                             /\ is_border(rm[n])
                             /\ rm[n].can_dig
                             /\ contains(m, Add(off, n))
                             /\ is_walkable(m[Add(off, n)])

\* the body of the loop of is_valid_placement for the room cell at p:
\* TRUE when that iteration returns false
PlacementRejects(m, off, rm, p) ==
    LET c == rm[p]
        pos == Add(off, p)
    IN  IF ~contains(m, pos)
        THEN is_walkable(c) \/ is_bumper(c)
        ELSE LET existing == m[pos] IN
             \/ is_interior(existing)
             \/ (is_interior(c) /\ ~existing.can_dig)
             \/ /\ is_border(c)
                /\ \/ IF is_border(existing)
                      THEN existing.terrain # c.terrain
                      ELSE \E n \in taxicab_neighbors(p) :
                               /\ ~contains(rm, n)
                               /\ contains(m, Add(off, n))
                               /\ is_border(m[Add(off, n)])
                   \/ /\ is_walkable(existing)
                      /\ c.can_dig
                      /\ \E n \in hex_neighbors(p) :
                             /\ contains(rm, n)
                             /\ is_border(rm[n])
                             /\ rm[n].can_dig
                             /\ contains(m, Add(off, n))
                             /\ is_walkable(m[Add(off, n)])

is_valid_placement(m, off, rm) == ~(\E p \in DOMAIN rm : PlacementRejects(m, off, rm, p))

\* place_room_at that never turns a border into a door
PlacedCellNoDoor(m, pos, c) ==
    IF contains(m, pos) /\ ~m[pos].can_dig THEN [c EXCEPT !.can_dig = FALSE] ELSE c

\* place_room_at without the propagation of undiggability
PlacedCellNoPropagation(m, pos, c) ==
    IF contains(m, pos) /\ is_walkable(m[pos]) /\ is_border(c) /\ c.can_dig
    THEN to_door(c) ELSE c

\* the cell place_room_at writes for the room cell c at pos
PlacedCell(m, pos, c) ==
    IF contains(m, pos)
    THEN LET existing == m[pos]
             c1 == IF is_walkable(existing) /\ is_border(c) /\ c.can_dig THEN to_door(c) ELSE c
         IN  IF ~existing.can_dig THEN [c1 EXCEPT !.can_dig = FALSE] ELSE c1
    ELSE c

\* the loop of place_room_at over the room's cells in iteration order
RECURSIVE PlaceLoop(_, _, _, _)
PlaceLoop(m, off, rm, keys) ==
    IF keys = <<>> THEN m
    ELSE LET p == keys[1]
             pos == Add(p, off)
         IN  IF is_bumper(rm[p]) THEN PlaceLoop(m, off, rm, Tail(keys))
             ELSE PlaceLoop(insert(m, pos, PlacedCell(m, pos, rm[p])), off, rm, Tail(keys))

place_room_at(m, off, rm, hs) == PlaceLoop(m, off, rm, HashIter(DOMAIN rm, hs))

IsValidSite(m, rm) == {pos \in DOMAIN m : is_valid_placement(m, pos, rm)}

room_positions(m, rm, hs) == find_positions(m, IsValidSite(m, rm), hs)

----------------------------------------------------------------------------
(* Tunnelling *)

SideOffsets(dir) ==
    CASE dir = "North" -> {<<-1, 0>>, <<0, -1>>, <<-2, -1>>, <<-1, -2>>}
      [] dir = "Northeast" -> {<<-1, -1>>, <<1, -1>>}
      [] dir = "Southeast" -> {<<1, -1>>, <<1, 1>>}
      [] dir = "South" -> {<<1, 0>>, <<0, 1>>, <<2, 1>>, <<1, 2>>}
      [] dir = "Southwest" -> {<<-1, 1>>, <<1, 1>>}
      [] dir = "Northwest" -> {<<-1, -1>>, <<-1, 1>>}

\* can_tunnel that looks at the side walls before the target
can_tunnel_sides_first(m, pos, dir) ==
    LET target_pos == Add(pos, DirVec(dir)) IN
    IF \E s \in SideOffsets(dir) :
           contains(m, Add(pos, s)) /\ is_walkable(m[Add(pos, s)]) THEN FALSE
    ELSE contains(m, target_pos) /\ m[target_pos].can_dig

\* can_tunnel without the test of the target's diggability and vault role
can_tunnel_any_target(m, pos, dir) ==
    LET target_pos == Add(pos, DirVec(dir)) IN
    IF contains(m, target_pos) /\ is_walkable(m[target_pos]) THEN TRUE
    ELSE ~(\E s \in SideOffsets(dir) :
               contains(m, Add(pos, s)) /\ is_walkable(m[Add(pos, s)]))

\* can_tunnel that lets undiggable targets through
can_tunnel_undiggable(m, pos, dir) ==
    LET target_pos == Add(pos, DirVec(dir)) IN
    IF contains(m, target_pos) /\ is_walkable(m[target_pos]) THEN TRUE
    ELSE IF ~contains(m, target_pos)
            \/ m[target_pos].vault_kind = "Interior" THEN FALSE
    ELSE IF \E s \in SideOffsets(dir) :
                contains(m, Add(pos, s)) /\ is_walkable(m[Add(pos, s)]) THEN FALSE
    ELSE IF /\ is_border(m[target_pos])
            /\ \/ ~is_fake_isometric(dir)
               \/ \E n \in hex_neighbors(target_pos) :
                      contains(m, n) /\ is_border(m[n]) /\ is_walkable(m[n]) THEN FALSE
    ELSE IF contains(m, pos) /\ is_border(m[pos]) /\ ~is_fake_isometric(dir) THEN FALSE
    ELSE TRUE

\* can_tunnel without the tests of the fake-isometric axis
can_tunnel_any_axis(m, pos, dir) ==
    LET target_pos == Add(pos, DirVec(dir)) IN
    IF contains(m, target_pos) /\ is_walkable(m[target_pos]) THEN TRUE
    ELSE IF ~contains(m, target_pos)
            \/ ~m[target_pos].can_dig
            \/ m[target_pos].vault_kind = "Interior" THEN FALSE
    ELSE IF \E s \in SideOffsets(dir) :
                contains(m, Add(pos, s)) /\ is_walkable(m[Add(pos, s)]) THEN FALSE
    ELSE IF /\ is_border(m[target_pos])
            /\ \E n \in hex_neighbors(target_pos) :
                   contains(m, n) /\ is_border(m[n]) /\ is_walkable(m[n]) THEN FALSE
    ELSE TRUE

can_tunnel(m, pos, dir) ==
    LET target_pos == Add(pos, DirVec(dir)) IN
    IF contains(m, target_pos) /\ is_walkable(m[target_pos]) THEN TRUE
    ELSE IF ~contains(m, target_pos)
            \/ ~m[target_pos].can_dig
            \/ m[target_pos].vault_kind = "Interior" THEN FALSE
    ELSE IF \E s \in SideOffsets(dir) :
                contains(m, Add(pos, s)) /\ is_walkable(m[Add(pos, s)]) THEN FALSE
    ELSE IF /\ is_border(m[target_pos])
            /\ \/ ~is_fake_isometric(dir)
               \/ \E n \in hex_neighbors(target_pos) :
                      contains(m, n) /\ is_border(m[n]) /\ is_walkable(m[n]) THEN FALSE
    ELSE IF contains(m, pos) /\ is_border(m[pos]) /\ ~is_fake_isometric(dir) THEN FALSE
    ELSE TRUE

\* dig that makes a fresh door cell, without the vault role
dig_plain_door(m, pos) ==
    IF ~contains(m, pos) THEN m
    ELSE LET existing == m[pos] IN
         IF is_walkable(existing) \/ is_interior(existing) THEN m
         ELSE IF is_border(existing) THEN insert(m, pos, new_terrain("Door"))
         ELSE insert(m, pos, new_terrain("Ground"))

\* dig that only opens borders
dig_borders_only(m, pos) ==
    IF ~contains(m, pos) THEN m
    ELSE LET existing == m[pos] IN
         IF is_border(existing) /\ ~is_walkable(existing)
         THEN insert(m, pos, to_door(existing))
         ELSE m

\* dig that lays plain ground over a border
dig_through_border(m, pos) ==
    IF ~contains(m, pos) THEN m
    ELSE LET existing == m[pos] IN
         IF is_walkable(existing) \/ is_interior(existing) THEN m
         ELSE insert(m, pos, new_terrain("Ground"))

dig(m, pos) ==
    IF ~contains(m, pos) THEN m
    ELSE LET existing == m[pos] IN
         IF is_walkable(existing) \/ is_interior(existing) THEN m
         ELSE IF is_border(existing) THEN insert(m, pos, to_door(existing))
         ELSE insert(m, pos, new_terrain("Ground"))

\* dig's debug_assert!(existing.can_dig) fails
DigAssertFails(m, pos) == contains(m, pos) /\ ~m[pos].can_dig

----------------------------------------------------------------------------
(* Region analysis *)

\* flood_fill whose frontier keeps only the newest points
RECURSIVE FloodLoopForgetsEdge(_, _, _, _)
FloodLoopForgetsEdge(points, edge, acc, hs) ==
    IF edge = {} THEN acc
    ELSE LET pos == HashFirst(edge, hs)
             new == hex_neighbors(pos) \cap points
         IN  FloodLoopForgetsEdge(points \ new, new, acc \cup {pos}, hs)

RECURSIVE FloodLoop(_, _, _, _)
FloodLoop(points, edge, acc, hs) ==
    IF edge = {} THEN acc
    ELSE LET pos == HashFirst(edge, hs)
             new == hex_neighbors(pos) \cap points
         IN  FloodLoop(points \ new, (edge \ {pos}) \cup new, acc \cup {pos}, hs)

flood_fill(points, seed, hs) ==
    IF seed \notin points THEN {}
    ELSE FloodLoop(points \ {seed}, {seed}, {}, hs)

RECURSIVE RegionLoop(_, _, _)
RegionLoop(points, sets, hs) ==
    IF points = {} THEN sets
    ELSE LET seed == HashFirst(points, hs)
             subset == flood_fill(points, seed, hs)
         IN  RegionLoop(points \ subset, Append(sets, SortXY(HashIter(subset, hs))), hs)

\* separate_regions without the final sets.sort()
separate_regions_unsorted(points, hs) == RegionLoop(points, <<>>, hs)

separate_regions(points, hs) == SortSeqXY(RegionLoop(points, <<>>, hs))

is_vault_exterior(m, pos) == contains(m, pos) /\ m[pos].vault_kind = "None"

\* is_interior_bubble that accepts diggable vault cells around the points
is_interior_bubble_any_vault(m, points) ==
    \A i \in 1..Len(points) :
        /\ ~is_vault_exterior(m, points[i])
        /\ \A p_edge \in hex_neighbors(points[i]) : ~is_vault_exterior(m, p_edge)

is_interior_bubble(m, points) ==
    \A i \in 1..Len(points) :
        /\ ~is_vault_exterior(m, points[i])
        /\ \A p_edge \in hex_neighbors(points[i]) :
               /\ ~is_vault_exterior(m, p_edge)
               /\ (contains(m, p_edge) => ~m[p_edge].can_dig)

Floors(m) == {p \in DOMAIN m : is_walkable(m[p])}

\* the loop of join_disjoint_regions ends
JoinFinishedTooEarly(regions) == Len(regions) < 3

JoinFinished(regions) == Len(regions) < 2

\* the regions join_disjoint_regions considers in one round
JoinRegions(m, hs) ==
    LET NotBubble(r) == ~is_interior_bubble(m, r)
    IN  SelectSeq(separate_regions(Floors(m), hs), NotBubble)

----------------------------------------------------------------------------
(* find_tunnel: one round of the search loop *)

\* points[0] after the two sorts
NextOpen(op, goal, hs) == SortDist(SortXY(HashIter(DOMAIN op, hs)), goal)[1]

\* the expansion that does not look at the closed set
RECURSIVE ExpandDirsReopens(_, _, _, _, _, _)
ExpandDirsReopens(m, p, goal, cl, op, i) ==
    IF i > 6 THEN [found |-> FALSE, map |-> m, open |-> op, asserted |-> FALSE]
    ELSE LET d == Dir6[i]
             q == Add(p, DirVec(d))
         IN  IF ~can_tunnel(m, p, d) THEN ExpandDirsReopens(m, p, goal, cl, op, i + 1)
             ELSE LET new_map == dig(m, q) IN
                  IF q = goal
                  THEN [found |-> TRUE, map |-> new_map, open |-> op,
                        asserted |-> DigAssertFails(m, q)]
                  ELSE LET r == ExpandDirsReopens(m, p, goal, cl, insert(op, q, new_map), i + 1)
                       IN  [r EXCEPT !.asserted = @ \/ DigAssertFails(m, q)]

\* the expansion that digs every direction into one shared map
RECURSIVE ExpandDirsShared(_, _, _, _, _, _)
ExpandDirsShared(m, p, goal, cl, op, i) ==
    IF i > 6 THEN [found |-> FALSE, map |-> m, open |-> op, asserted |-> FALSE]
    ELSE LET d == Dir6[i]
             q == Add(p, DirVec(d))
         IN  IF q \in cl \/ ~can_tunnel(m, p, d) THEN ExpandDirsShared(m, p, goal, cl, op, i + 1)
             ELSE LET new_map == dig(m, q) IN
                  IF q = goal
                  THEN [found |-> TRUE, map |-> new_map, open |-> op,
                        asserted |-> DigAssertFails(m, q)]
                  ELSE LET r == ExpandDirsShared(new_map, p, goal, cl,
                                                 insert(op, q, new_map), i + 1)
                       IN  [r EXCEPT !.asserted = @ \/ DigAssertFails(m, q)]

\* the expansion without the test q == p2: the goal joins the open set
RECURSIVE ExpandDirsPastGoal(_, _, _, _, _, _)
ExpandDirsPastGoal(m, p, goal, cl, op, i) ==
    IF i > 6 THEN [found |-> FALSE, map |-> m, open |-> op, asserted |-> FALSE]
    ELSE LET d == Dir6[i]
             q == Add(p, DirVec(d))
         IN  IF q \in cl \/ ~can_tunnel(m, p, d)
             THEN ExpandDirsPastGoal(m, p, goal, cl, op, i + 1)
             ELSE LET r == ExpandDirsPastGoal(m, p, goal, cl, insert(op, q, dig(m, q)), i + 1)
                  IN  [r EXCEPT !.asserted = @ \/ DigAssertFails(m, q)]

RECURSIVE ExpandDirs(_, _, _, _, _, _)
ExpandDirs(m, p, goal, cl, op, i) ==
    IF i > 6 THEN [found |-> FALSE, map |-> m, open |-> op, asserted |-> FALSE]
    ELSE LET d == Dir6[i]
             q == Add(p, DirVec(d))
         IN  IF q \in cl \/ ~can_tunnel(m, p, d) THEN ExpandDirs(m, p, goal, cl, op, i + 1)
             ELSE LET new_map == dig(m, q) IN
                  IF q = goal
                  THEN [found |-> TRUE, map |-> new_map, open |-> op,
                        asserted |-> DigAssertFails(m, q)]
                  ELSE LET r == ExpandDirs(m, p, goal, cl, insert(op, q, new_map), i + 1)
                       IN  [r EXCEPT !.asserted = @ \/ DigAssertFails(m, q)]

TunnelRound(op, cl, goal, hs) ==
    LET p == NextOpen(op, goal, hs) IN ExpandDirs(op[p], p, goal, cl, op, 1)

Remove(op, p) == [q \in (DOMAIN op) \ {p} |-> op[q]]

----------------------------------------------------------------------------
(* The map program: a base level, rooms placed on it, connectivity repair *)

BasePoints == (0..(BaseW - 1)) \X (0..(BaseH - 1))

Universe == ((0 - Margin)..(BaseW - 1 + Margin)) \X ((0 - Margin)..(BaseH - 1 + Margin))

Offsets == ((0 - Margin - 1)..(BaseW + Margin)) \X ((0 - Margin - 1)..(BaseH + Margin))

SealedVault == << <<"#", "#", "#">>, <<"#", ".", "#">>, <<"#", "#", "#">> >>

DoorVault == << <<"%", "+", "#">>, <<"+", ".", "+">>, <<"#", "+", "#">> >>

StairVault ==
    << <<" ", "#", "#", "#", "#">>,
       <<"_", "+", "<", ">", "#">>,
       <<" ", "#", "#", "#", "#">> >>

PillarVault == << <<"#", "#", "#", "#">>, <<"+", "a", "I", "#">>, <<"#", "#", "#", "#">> >>

Textmaps == {SealedVault, DoorVault, StairVault, PillarVault}

PlainSides == RoomMin..(IF MaxSide < RoomEnd - 1 THEN MaxSide ELSE RoomEnd - 1)

Vaults ==
    {new_plain_room(w, h) : w \in PlainSides, h \in PlainSides}
        \cup {new_vault(t).map : t \in {u \in Textmaps : new_vault(u).ok}}

InUniverse(off, rm) == \A p \in DOMAIN rm : Add(off, p) \in Universe

None == [some |-> FALSE, map |-> EmptyMap]

Some(m) == [some |-> TRUE, map |-> m]

MapInit ==
    /\ map = new_base(BasePoints)
    /\ room = EmptyMap
    /\ offset = <<0, 0>>
    /\ pc = "idle"
    /\ ret = EmptyMap
    /\ open = EmptyMap
    /\ closed = {}
    /\ p1 = <<0, 0>>
    /\ p2 = <<0, 0>>
    /\ result = None

RoomInit ==
    /\ rpc = "start"
    /\ rw = 0
    /\ rh = 0
    /\ rx = 0
    /\ ry = 0
    /\ rret = EmptyMap

\* nothing constructed yet
NoWorld == [seed |-> 0, terrain |-> <<>>, portals |-> <<>>, spawns |-> <<>>,
            player_entry |-> <<>>]

NoLoc == <<>>

NoDigger == [sector |-> <<>>, up_portal |-> NoLoc, down_portal |-> NoLoc,
             spawn_region |-> {}]

WorldInit ==
    /\ world = NoWorld
    /\ rng = 0
    /\ entrance = NoLoc
    /\ depth = 0
    /\ digger = NoDigger
    /\ trace = <<>>
    /\ whs = 0
    /\ gen = NoWorld
    /\ ghs = 0
    /\ run = 0
    /\ wpc = "new"

Init == MapInit /\ RoomInit /\ WorldInit

\* where the program is after a dig whose debug assertion failed: a debug
\* build panics, a release build goes on
AfterDig(failed, next) == IF failed THEN {"panic", next} ELSE {next}

\* place_room_at(offset, room) on a valid placement
PlaceRoomAt ==
    /\ pc = "idle"
    /\ \E rm \in Vaults, off \in Offsets, hs \in HashSeeds :
        /\ InUniverse(off, rm)
        /\ is_valid_placement(map, off, rm)
        /\ map' = place_room_at(map, off, rm, hs)
        /\ room' = rm
        /\ offset' = off
    /\ UNCHANGED <<pc, ret, open, closed, p1, p2, result, roomvars, worldvars>>

\* place_room(rng, room): a site picked among room_positions
PlaceRoom ==
    /\ pc = "idle"
    /\ \E rm \in Vaults, hs \in HashSeeds :
        LET sites == room_positions(map, rm, hs) IN
        /\ sites # <<>>
        /\ \E i \in 1..Len(sites) :
            /\ InUniverse(sites[i], rm)
            /\ map' = place_room_at(map, sites[i], rm, hs)
            /\ room' = rm
            /\ offset' = sites[i]
    /\ UNCHANGED <<pc, ret, open, closed, p1, p2, result, roomvars, worldvars>>

\* join_disjoint_regions: entry, the receiver is cloned
JoinStart ==
    /\ pc = "idle"
    /\ ret' = map
    /\ pc' = "join"
    /\ result' = None
    /\ UNCHANGED <<map, room, offset, open, closed, p1, p2, roomvars, worldvars>>

\* join_disjoint_regions: the loop finds fewer than two regions
JoinDone ==
    /\ pc = "join"
    /\ \E hs \in HashSeeds :
        /\ JoinFinished(JoinRegions(ret, hs))
        /\ result' = Some(ret)
        /\ pc' = "done"
    /\ UNCHANGED <<map, room, offset, ret, open, closed, p1, p2, roomvars, worldvars>>

\* join_disjoint_regions: representatives sampled, find_tunnel entered
JoinPick ==
    /\ pc = "join"
    /\ \E hs \in HashSeeds :
        LET regions == JoinRegions(ret, hs) IN
        /\ ~JoinFinished(regions)
        /\ \E i \in 1..Len(regions[1]), j \in 1..Len(regions[2]) :
            /\ p1' = regions[1][i]
            /\ p2' = regions[2][j]
            /\ open' = insert(EmptyMap, regions[1][i], dig(ret, regions[1][i]))
            /\ closed' = {}
            /\ pc' \in AfterDig(DigAssertFails(ret, regions[1][i]), "tunnel")
    /\ UNCHANGED <<map, room, offset, ret, result, roomvars, worldvars>>

\* find_tunnel: one round of the loop that does not reach p2
TunnelStep ==
    /\ pc = "tunnel"
    /\ DOMAIN open # {}
    /\ \E hs \in HashSeeds :
        LET p == NextOpen(open, p2, hs)
            r == TunnelRound(open, closed, p2, hs)
        IN  /\ ~r.found
            /\ open' = Remove(r.open, p)
            /\ closed' = closed \cup {p}
            /\ pc' \in AfterDig(r.asserted, "tunnel")
    /\ UNCHANGED <<map, room, offset, ret, p1, p2, result, roomvars, worldvars>>

\* find_tunnel: the round reaches p2, the snapshot is returned and adopted
TunnelFound ==
    /\ pc = "tunnel"
    /\ DOMAIN open # {}
    /\ \E hs \in HashSeeds :
        LET r == TunnelRound(open, closed, p2, hs) IN
        /\ r.found
        /\ ret' = r.map
        /\ pc' \in AfterDig(r.asserted, "join")
    /\ open' = EmptyMap
    /\ closed' = {}
    /\ UNCHANGED <<map, room, offset, p1, p2, result, roomvars, worldvars>>

\* find_tunnel: the open set is exhausted, None is propagated
TunnelFail ==
    /\ pc = "tunnel"
    /\ DOMAIN open = {}
    /\ result' = None
    /\ pc' = "done"
    /\ closed' = {}
    /\ UNCHANGED <<map, room, offset, ret, open, p1, p2, roomvars, worldvars>>

\* the caller takes the repaired map
Adopt ==
    /\ pc = "done"
    /\ result.some
    /\ map' = result.map
    /\ pc' = "idle"
    /\ result' = None
    /\ ret' = EmptyMap
    /\ UNCHANGED <<room, offset, open, closed, p1, p2, roomvars, worldvars>>

Next ==
    \/ PlaceRoomAt
    \/ PlaceRoom
    \/ JoinStart
    \/ JoinDone
    \/ JoinPick
    \/ TunnelStep
    \/ TunnelFound
    \/ TunnelFail
    \/ Adopt

Spec == Init /\ [][Next]_vars

----------------------------------------------------------------------------
(* Rooms placed on a level that already holds open ground *)

\* the cells of open ground outside the vaults
Dug(m) == {p \in DOMAIN m : is_walkable(m[p]) /\ m[p].vault_kind = "None"}

\* insert(pos, MapCell::new_terrain(Ground)) on a cell of the base
InsertGround ==
    /\ pc = "idle"
    /\ Cardinality(Dug(map)) < MaxDug
    /\ \E pos \in BasePoints :
        /\ map[pos] = DefaultCell
        /\ map' = insert(map, pos, new_terrain("Ground"))
    /\ UNCHANGED <<room, offset, pc, ret, open, closed, p1, p2, result, roomvars, worldvars>>

NextPlace == InsertGround \/ PlaceRoomAt

SpecPlace == Init /\ [][NextPlace]_vars

----------------------------------------------------------------------------
(* Connectivity repair of a level that holds scattered open ground *)

\* insert(pos, MapCell::new_terrain(Ground)) while the level has little floor
InsertFloor ==
    /\ pc = "idle"
    /\ Cardinality(Floors(map)) < MaxFloor
    /\ \E pos \in BasePoints :
        /\ map[pos] = DefaultCell
        /\ map' = insert(map, pos, new_terrain("Ground"))
    /\ UNCHANGED <<room, offset, pc, ret, open, closed, p1, p2, result, roomvars, worldvars>>

NextRepair ==
    \/ InsertFloor
    \/ JoinStart
    \/ JoinDone
    \/ JoinPick
    \/ TunnelStep
    \/ TunnelFound
    \/ TunnelFail
    \/ Adopt

SpecRepair == Init /\ [][NextRepair]_vars

----------------------------------------------------------------------------
(* Plain rooms placed on a taller level that holds some open ground *)

TallPoints == (0..(BaseW - 1)) \X (0..(TallH - 1))

PlainRooms == {new_plain_room(w, h) : w \in PlainSides, h \in PlainSides}

InitTall ==
    /\ map = new_base(TallPoints)
    /\ room = EmptyMap
    /\ offset = <<0, 0>>
    /\ pc = "idle"
    /\ ret = EmptyMap
    /\ open = EmptyMap
    /\ closed = {}
    /\ p1 = <<0, 0>>
    /\ p2 = <<0, 0>>
    /\ result = None
    /\ RoomInit
    /\ WorldInit

\* insert(pos, MapCell::new_terrain(Ground)) on a cell of the tall base
InsertGroundTall ==
    /\ pc = "idle"
    /\ Cardinality(Dug(map)) < MaxDug
    /\ \E pos \in TallPoints :
        /\ map[pos] = DefaultCell
        /\ map' = insert(map, pos, new_terrain("Ground"))
    /\ UNCHANGED <<room, offset, pc, ret, open, closed, p1, p2, result, roomvars, worldvars>>

\* place_room_at(offset, new_plain_room) on a valid placement
PlacePlainRoomAt ==
    /\ pc = "idle"
    /\ \E rm \in PlainRooms, off \in TallPoints, hs \in HashSeeds :
        /\ is_valid_placement(map, off, rm)
        /\ map' = place_room_at(map, off, rm, hs)
        /\ room' = rm
        /\ offset' = off
    /\ UNCHANGED <<pc, ret, open, closed, p1, p2, result, roomvars, worldvars>>

NextTall == InsertGroundTall \/ PlacePlainRoomAt

SpecTall == InitTall /\ [][NextTall]_vars

----------------------------------------------------------------------------
(* new_plain_room, loop by loop *)

\* (w, h) drawn with rng.gen_range(2, 8)
RoomSample ==
    /\ rpc = "start"
    /\ \E w \in RoomMin..(RoomEnd - 1), h \in RoomMin..(RoomEnd - 1) :
        /\ rw' = w
        /\ rh' = h
    /\ rx' = -1
    /\ ry' = -1
    /\ rret' = EmptyMap
    /\ rpc' = "loop"
    /\ UNCHANGED <<mapvars, worldvars>>

\* one pass of the inner loop: the cell at (x, y) is inserted
RoomInsert ==
    /\ rpc = "loop"
    /\ rret' = insert(rret, <<rx, ry>>, PlainRoomCell(rw, rh, <<rx, ry>>))
    /\ IF rx + 1 < rw + 1
       THEN rx' = rx + 1 /\ ry' = ry /\ rpc' = "loop"
       ELSE /\ rx' = -1
            /\ ry' = ry + 1
            /\ rpc' = IF ry + 1 < rh + 1 THEN "loop" ELSE "done"
    /\ UNCHANGED <<mapvars, worldvars, rw, rh>>

NextRoom == RoomSample \/ RoomInsert

SpecRoom == Init /\ [][NextRoom]_vars

----------------------------------------------------------------------------
(* World assembly (world/src/worldgen.rs): locations, sectors, generator   *)

Seeds == 0..MaxSeed

Location(x, y, z) == <<x, y, z>>

LocAdd(l, v) == <<l[1] + v[1], l[2] + v[2], l[3]>>

LocSub(l, v) == <<l[1] - v[1], l[2] - v[2], l[3]>>

\* derived ordering of Location, the order of a BTreeSet<Location>
LessLoc(a, b) ==
    \/ a[1] < b[1]
    \/ a[1] = b[1] /\ a[2] < b[2]
    \/ a[1] = b[1] /\ a[2] = b[2] /\ a[3] < b[3]

RECURSIVE BTreeIter(_)
BTreeIter(S) ==
    IF S = {} THEN <<>>
    ELSE LET m == CHOOSE a \in S : \A b \in S \ {a} : LessLoc(a, b)
         IN <<m>> \o BTreeIter(S \ {m})

\* the keys of a hash container of locations, in the order it yields them
LocIter(S, hs) ==
    LET keys == HashIter({<<l[1], l[2]>> : l \in S}, hs)
        z == (CHOOSE l \in S : TRUE)[3]
    IN [i \in 1..Len(keys) |-> <<keys[i][1], keys[i][2], z>>]

\* a rectangular sector of SectorW x SectorH cells
Sector(x, y, z) == <<x, y, z>>

sector_origin(s) == Location(s[1] * SectorW, s[2] * SectorH, s[3])

sector_of(l) == Sector(l[1] \div SectorW, l[2] \div SectorH, l[3])

taxicab_distance(s, t) == Abs(s[1] - t[1]) + Abs(s[2] - t[2])

sector_iter(s) ==
    [i \in 1..(SectorW * SectorH) |->
        LocAdd(sector_origin(s), <<(i - 1) % SectorW, (i - 1) \div SectorW>>)]

v2_at(origin, l) == <<l[1] - origin[1], l[2] - origin[2]>>

is_next_to_diagonal_sector(l) ==
    \E d \in Dirs :
        taxicab_distance(sector_of(LocAdd(l, DirVec(d))), sector_of(l)) > 1

\* the same cells, listed in the order a hash container would yield them
domain_hash_order(s) ==
    LET cells == {l \in {sector_iter(s)[i] : i \in 1..(SectorW * SectorH)} :
                      ~is_next_to_diagonal_sector(l)}
        kept == LocIter(cells, whs)
    IN [i \in 1..Len(kept) |-> v2_at(sector_origin(s), kept[i])]

\* SectorDigger::domain: the cells of the sector the driver may dig
domain(s) ==
    LET kept == SelectSeq(sector_iter(s), LAMBDA l : ~is_next_to_diagonal_sector(l))
    IN [i \in 1..Len(kept) |-> v2_at(sector_origin(s), kept[i])]

\* SectorDigger::loc
loc(s, pos) == LocAdd(sector_origin(s), pos)

\* the generator: one step, and a draw from low..(high - 1)
next_u32(r) == (r * 6 + 11) % 251

gen_range(r, low, high) ==
    [value |-> low + (next_u32(r) % (high - low)), rng |-> next_u32(r)]

from_seed(seed) == seed % 251

\* rand::sample: a reservoir of at most amount items
RECURSIVE SampleLoop(_, _, _, _)
SampleLoop(r, reservoir, items, i) ==
    IF i > Len(items) THEN [value |-> reservoir, rng |-> r]
    ELSE LET k == gen_range(r, 0, i)
         IN SampleLoop(k.rng,
                       IF k.value < Len(reservoir)
                       THEN [reservoir EXCEPT ![k.value + 1] = items[i]]
                       ELSE reservoir,
                       items, i + 1)

sample(r, items, amount) ==
    IF Len(items) <= amount THEN [value |-> items, rng |-> r]
    ELSE SampleLoop(r, SubSeq(items, 1, amount), items, amount + 1)

----------------------------------------------------------------------------
(* Worldgen: the tables *)

\* the overland bitmap, metadata row stripped: pixel -> colour
Overland ==
    (<<25, 0>> :> "green") @@ (<<39, 12>> :> "green") @@ (<<40, 12>> :> "blue")
    @@ (<<41, 12>> :> "grey") @@ (<<41, 13>> :> "green") @@ (<<40, 13>> :> "pink")

\* Terrain::from_color: colours without a terrain give nothing
from_color(c) ==
    CASE c = "green" -> "Grass"
      [] c = "blue" -> "Water"
      [] c = "grey" -> "Rock"
      [] OTHER -> "None"

RECURSIVE ExtendLoop(_, _, _, _)
ExtendLoop(terrain, origin, keys, i) ==
    IF i > Len(keys) THEN terrain
    ELSE LET t == from_color(Overland[keys[i]])
         IN ExtendLoop(IF t = "None" THEN terrain
                       ELSE insert(terrain, LocAdd(origin, keys[i]), t),
                       origin, keys, i + 1)

load_map_bitmap(terrain, origin, hs) ==
    ExtendLoop(terrain, origin, HashIter(DOMAIN Overland, hs), 1)

default_terrain(l) == IF l[3] = 0 THEN "Ground" ELSE "Rock"

get_terrain(w, l) == IF l \in DOMAIN w.terrain THEN w.terrain[l] ELSE default_terrain(l)

DownboundEnclosure == <<<<1, 0>>, <<0, 1>>, <<2, 1>>, <<1, 2>>, <<2, 2>>>>

RECURSIVE EnclosureLoop(_, _, _)
EnclosureLoop(terrain, l, i) ==
    IF i > Len(DownboundEnclosure) THEN terrain
    ELSE EnclosureLoop(insert(terrain, LocAdd(l, DownboundEnclosure[i]), "Rock"), l, i + 1)

cave_entrance(terrain, l) ==
    insert(insert(EnclosureLoop(terrain, l, 1), l, "Ground"), LocAdd(l, <<1, 1>>), "Ground")

\* Portal::new keeps the displacement from origin to destination
Portal(origin, destination) ==
    <<destination[1] - origin[1], destination[2] - origin[2], destination[3] - origin[3]>>

\* portal punching the way back as well
portal_two_way(portals, origin, destination) ==
    insert(insert(portals, origin, Portal(origin, destination)),
           destination, Portal(destination, origin))

portal(portals, origin, destination) == insert(portals, origin, Portal(origin, destination))

get_portal(w, l) ==
    IF l \in DOMAIN w.portals
    THEN <<l[1] + w.portals[l][1], l[2] + w.portals[l][2], l[3] + w.portals[l][3]>>
    ELSE NoLoc

----------------------------------------------------------------------------
(* SectorDigger: the Dungeon callbacks. A working state st holds the       *)
(* terrain table, the digger dg and whether a debug assertion of set fired *)

new_digger(s) == [sector |-> s, up_portal |-> NoLoc, down_portal |-> NoLoc,
                  spawn_region |-> {}]

\* SectorDigger::set
set(st, l, t) ==
    [st EXCEPT !.terrain = insert(@, l, t),
               !.asserted = @ \/ (t # "Gate" /\ (st.dg.up_portal = l \/ st.dg.down_portal = l))]

RECURSIVE ChamberLoop(_, _, _)
ChamberLoop(st, area, i) ==
    IF i > Len(area) THEN st
    ELSE LET l == loc(st.dg.sector, area[i])
         IN ChamberLoop(set([st EXCEPT !.dg.spawn_region = @ \cup {l}], l, "Ground"),
                        area, i + 1)

dig_chamber(st, area) == ChamberLoop(st, area, 1)

RECURSIVE CorridorLoop(_, _, _)
CorridorLoop(st, path, i) ==
    IF i > Len(path) THEN st
    ELSE LET l == loc(st.dg.sector, path[i])
         IN CorridorLoop(set([st EXCEPT !.dg.spawn_region = @ \ {l}], l, "Ground"),
                         path, i + 1)

dig_corridor(st, path) == CorridorLoop(st, path, 1)

add_door(st, pos) ==
    LET l == loc(st.dg.sector, pos)
    IN set([st EXCEPT !.dg.spawn_region = @ \ {l}], l, "Door")

add_up_stairs(st, pos) ==
    LET l == loc(st.dg.sector, pos)
    IN set([st EXCEPT !.dg.up_portal = l, !.dg.spawn_region = @ \ {l}], l, "Gate")

\* add_down_stairs without the removal of the cell in front (worldgen.rs:346-348)
add_down_stairs_keeps_front(st, pos) ==
    LET l == loc(st.dg.sector, pos)
        gate == set([st EXCEPT !.dg.down_portal = l, !.dg.spawn_region = @ \ {l}], l, "Gate")
    IN set(gate, LocAdd(l, <<1, 1>>), "Empty")

add_down_stairs(st, pos) ==
    LET l == loc(st.dg.sector, pos)
        gate == set([st EXCEPT !.dg.down_portal = l, !.dg.spawn_region = @ \ {l}], l, "Gate")
        front == set(gate, LocAdd(l, <<1, 1>>), "Empty")
    IN [front EXCEPT !.dg.spawn_region = @ \ {LocAdd(l, <<1, 1>>)}]

\* Room::rand, behind sample_vault
sample_vault(r) ==
    LET w == gen_range(r, VaultMin, VaultEnd)
        h == gen_range(w.rng, VaultMin, VaultEnd)
    IN [value |-> <<w.value, h.value>>, rng |-> h.rng]

\* Terrain::is_open, with the cells the table lacks read as Empty
is_open(t) == t \in {"Ground", "Grass", "Door", "Gate"}

is_valid(terrain, l) == is_open(IF l \in DOMAIN terrain THEN terrain[l] ELSE "Empty")

\* calx::Dijkstra: the cells within range steps of the goals
RECURSIVE DijkstraLoop(_, _, _, _, _)
DijkstraLoop(terrain, frontier, seen, w, range) ==
    IF frontier = {} \/ w > range THEN seen
    ELSE LET reached == seen \cup frontier
             edge == {n \in UNION {{LocAdd(l, DirVec(d)) : d \in Dirs} : l \in frontier} :
                          n \notin reached /\ is_valid(terrain, n)}
         IN DijkstraLoop(terrain, edge, reached, w + 1, range)

RECURSIVE RemoveLoop(_, _, _)
RemoveLoop(region, keys, i) ==
    IF i > Len(keys) THEN region
    ELSE RemoveLoop(region \ {keys[i]}, keys, i + 1)

clear_spawns_near_entrance(dg, terrain, range, hs) ==
    LET near == DijkstraLoop(terrain, {dg.up_portal}, {}, 0, range)
    IN RemoveLoop(dg.spawn_region, LocIter(near, hs), 1)

\* form::rand on the forms of one kind at one depth
form_rand(r, kind, d) ==
    LET k == gen_range(r, 0, 2) IN [value |-> <<kind, d, k.value>>, rng |-> k.rng]

RECURSIVE SpawnLoop(_, _, _, _, _)
SpawnLoop(r, locs, i, d, spawns) ==
    IF i > Len(locs) THEN [value |-> spawns, rng |-> r]
    ELSE LET f == form_rand(r, IF i <= Len(locs) \div 2 THEN "item" ELSE "mob", d)
         IN SpawnLoop(f.rng, locs, i + 1, d, Append(spawns, <<locs[i], f.value>>))

\* the digger of a sector the driver left without stairs
StairsMissingUpOnly(dg) == dg.up_portal = NoLoc

StairsMissing(dg) == dg.up_portal = NoLoc \/ dg.down_portal = NoLoc

----------------------------------------------------------------------------
(* The dungeon driver behind mapgen::Caves.dig: what it calls next is a    *)
(* function of the generator and of the domain it was given                *)

Calls == <<"dig_chamber", "add_up_stairs", "add_down_stairs", "place_vault",
           "dig_corridor", "add_door", "return", "dig_chamber">>

driver(r, tr, cells) ==
    IF Len(tr) >= MaxCalls
    THEN [kind |-> "return", pos |-> <<0, 0>>, area |-> <<>>, rng |-> r]
    ELSE LET k == gen_range(r, 0, Len(Calls))
             i == gen_range(k.rng, 0, Len(cells))
             j == gen_range(i.rng, 0, Len(cells))
         IN [kind |-> Calls[k.value + 1], pos |-> cells[i.value + 1],
             area |-> <<cells[i.value + 1], cells[j.value + 1]>>, rng |-> j.rng]

Pending == driver(rng, trace, domain(digger.sector))

Digging == [terrain |-> world.terrain, dg |-> digger, asserted |-> FALSE]

\* where construction is after set: a debug build panics on a failed
\* assertion, a release build goes on
AfterSet(failed, next) == IF failed THEN {"panic", next} ELSE {next}

Called(st) ==
    /\ world' = [world EXCEPT !.terrain = st.terrain]
    /\ digger' = st.dg
    /\ rng' = Pending.rng
    /\ trace' = Append(trace, <<Pending.kind, Pending.pos>>)
    /\ wpc' \in AfterSet(st.asserted, "dig")
    /\ UNCHANGED <<entrance, depth, whs, gen, ghs, run, mapvars, roomvars>>

----------------------------------------------------------------------------
(* Worldgen::new, and the repeated construction of test_determinism *)

PlayerEntry == Location(25, 0, 0)

CaveEntrance == Location(40, 12, 0)

\* Worldgen::new up to the sector loop
WorldNew ==
    /\ wpc = "new"
    /\ \E seed \in (IF run = 0 THEN Seeds ELSE {gen.seed}), hs \in HashSeeds :
        LET loaded == load_map_bitmap(<<>>, Location(0, 0, 0), hs)
            caved == cave_entrance(loaded, CaveEntrance)
            gated == insert(insert(caved, CaveEntrance, "Gate"),
                            LocAdd(CaveEntrance, <<1, 1>>), "Empty")
        IN /\ world' = [seed |-> seed, terrain |-> gated, portals |-> <<>>,
                        spawns |-> <<>>, player_entry |-> PlayerEntry]
           /\ rng' = from_seed(seed)
           /\ whs' = hs
    /\ entrance' = CaveEntrance
    /\ depth' = 1
    /\ digger' = NoDigger
    /\ trace' = <<>>
    /\ wpc' = "sector"
    /\ UNCHANGED <<gen, ghs, run, mapvars, roomvars>>

\* the loop goes on: a SectorDigger is bound to the sector of this depth
SectorBegin ==
    /\ wpc = "sector"
    /\ depth < DepthEnd
    /\ depth <= MaxDepth
    /\ digger' = new_digger(Sector(0, 0, depth))
    /\ trace' = <<>>
    /\ wpc' = "dig"
    /\ UNCHANGED <<world, rng, entrance, depth, whs, gen, ghs, run, mapvars, roomvars>>

DigChamber ==
    /\ wpc = "dig"
    /\ Pending.kind = "dig_chamber"
    /\ Called(dig_chamber(Digging, Pending.area))

DigCorridor ==
    /\ wpc = "dig"
    /\ Pending.kind = "dig_corridor"
    /\ Called(dig_corridor(Digging, Pending.area))

AddDoor ==
    /\ wpc = "dig"
    /\ Pending.kind = "add_door"
    /\ Called(add_door(Digging, Pending.pos))

AddUpStairs ==
    /\ wpc = "dig"
    /\ Pending.kind = "add_up_stairs"
    /\ Called(add_up_stairs(Digging, Pending.pos))

AddDownStairs ==
    /\ wpc = "dig"
    /\ Pending.kind = "add_down_stairs"
    /\ Called(add_down_stairs(Digging, Pending.pos))

\* sample_vault, then place_vault, which is unimplemented!()
PlaceVault ==
    /\ wpc = "dig"
    /\ Pending.kind = "place_vault"
    /\ rng' = sample_vault(Pending.rng).rng
    /\ trace' = Append(trace, <<Pending.kind, Pending.pos>>)
    /\ wpc' = "panic"
    /\ UNCHANGED <<world, entrance, depth, digger, whs, gen, ghs, run, mapvars, roomvars>>

\* mapgen::Caves.dig returns
DriverReturn ==
    /\ wpc = "dig"
    /\ Pending.kind = "return"
    /\ rng' = Pending.rng
    /\ trace' = Append(trace, <<Pending.kind, Pending.pos>>)
    /\ wpc' = "dug"
    /\ UNCHANGED <<world, entrance, depth, digger, whs, gen, ghs, run, mapvars, roomvars>>

\* the rest of the loop body: stairs expected, spawns, portals
SectorEnd ==
    /\ wpc = "dug"
    /\ IF StairsMissing(digger)
       THEN /\ wpc' = "panic"
            /\ UNCHANGED <<world, rng, entrance, depth, digger>>
       ELSE LET region == clear_spawns_near_entrance(digger, world.terrain,
                                                     SpawnClearRange, whs)
                spawn_locs == sample(rng, BTreeIter(region), SpawnQuota)
                spawns == SpawnLoop(spawn_locs.rng, spawn_locs.value, 1, depth, <<>>)
                up_stairs == digger.up_portal
                down_stairs == digger.down_portal
            IN /\ digger' = [digger EXCEPT !.spawn_region = region]
               /\ rng' = spawns.rng
               /\ world' = [world EXCEPT
                      !.spawns = @ \o spawns.value,
                      !.portals = portal(portal(@, entrance, LocAdd(up_stairs, <<1, 1>>)),
                                         up_stairs, LocSub(entrance, <<1, 1>>))]
               /\ entrance' = down_stairs
               /\ depth' = depth + 1
               /\ wpc' = "sector"
    /\ UNCHANGED <<trace, whs, gen, ghs, run, mapvars, roomvars>>

\* the loop is over: the world is returned
WorldReturn ==
    /\ wpc = "sector"
    /\ ~(depth < DepthEnd /\ depth <= MaxDepth)
    /\ wpc' = "done"
    /\ UNCHANGED <<world, rng, entrance, depth, digger, trace, whs, gen, ghs, run,
                   mapvars, roomvars>>

\* test_determinism: gen = second, and the next construction with gen's seed
TestRepeat ==
    /\ wpc = "done"
    /\ run < MaxRuns
    /\ gen' = world
    /\ ghs' = whs
    /\ run' = run + 1
    /\ wpc' = "new"
    /\ UNCHANGED <<world, rng, entrance, depth, digger, trace, whs, mapvars, roomvars>>

NextWorld ==
    \/ WorldNew
    \/ SectorBegin
    \/ DigChamber
    \/ DigCorridor
    \/ AddDoor
    \/ AddUpStairs
    \/ AddDownStairs
    \/ PlaceVault
    \/ DriverReturn
    \/ SectorEnd
    \/ WorldReturn
    \/ TestRepeat

SpecWorld == Init /\ [][NextWorld]_vars

----------------------------------------------------------------------------
(* The callbacks of SectorDigger, called in any order *)

\* the positions the callbacks are called with: a cell, the cell before it
\* on the (1, 1) diagonal, and a cell beside them
DiggerCells == {<<0, 0>>, <<1, 0>>, <<1, 1>>}

InitDigger ==
    /\ MapInit
    /\ RoomInit
    /\ world = NoWorld
    /\ rng = 0
    /\ entrance = NoLoc
    /\ depth = 1
    /\ digger = new_digger(Sector(0, 0, 1))
    /\ trace = <<>>
    /\ whs = 0
    /\ gen = NoWorld
    /\ ghs = 0
    /\ run = 0
    /\ wpc = "dig"

\* a callback has run: trace holds the last call only
Returned(st, call) ==
    /\ world' = [world EXCEPT !.terrain = st.terrain]
    /\ digger' = st.dg
    /\ trace' = <<call>>
    /\ wpc' \in AfterSet(st.asserted, "dig")
    /\ UNCHANGED <<rng, entrance, depth, whs, gen, ghs, run, mapvars, roomvars>>

CallDigChamber ==
    /\ wpc = "dig"
    /\ \E a, b \in DiggerCells :
           Returned(dig_chamber(Digging, <<a, b>>), <<"dig_chamber", a, b>>)

CallDigCorridor ==
    /\ wpc = "dig"
    /\ \E a, b \in DiggerCells :
           Returned(dig_corridor(Digging, <<a, b>>), <<"dig_corridor", a, b>>)

CallAddDoor ==
    /\ wpc = "dig"
    /\ \E a \in DiggerCells : Returned(add_door(Digging, a), <<"add_door", a, a>>)

CallAddUpStairs ==
    /\ wpc = "dig"
    /\ \E a \in DiggerCells : Returned(add_up_stairs(Digging, a), <<"add_up_stairs", a, a>>)

CallAddDownStairs ==
    /\ wpc = "dig"
    /\ \E a \in DiggerCells :
           Returned(add_down_stairs(Digging, a), <<"add_down_stairs", a, a>>)

NextDigger ==
    \/ CallDigChamber
    \/ CallDigCorridor
    \/ CallAddDoor
    \/ CallAddUpStairs
    \/ CallAddDownStairs

SpecDigger == InitDigger /\ [][NextDigger]_vars

----------------------------------------------------------------------------
(* Claims *)

Range(s) == {s[i] : i \in 1..Len(s)}

AscendingXY(s) == \A i \in 1..(Len(s) - 1) : LessXY(s[i], s[i + 1])

\* join_disjoint_regions has returned Some(m)
JoinSucceeded == pc = "done" /\ result.some

\* C2, as stated: whenever join_disjoint_regions returns Some(m) for a grid
\* with at least one walkable cell, the walkable cells of m form exactly one
\* region once interior bubbles are discarded.
C2_Original ==
    (JoinSucceeded /\ Floors(map) # {})
        => \A hs \in HashSeeds : Len(JoinRegions(result.map, hs)) = 1

\* C2, amended: whenever join_disjoint_regions returns Some(m), the walkable
\* cells of m form at most one region once interior bubbles are discarded,
\* and exactly one when the grid had a walkable cell outside the bubbles.
C2_OneRegion ==
    JoinSucceeded =>
        \A hs \in HashSeeds :
            /\ Len(JoinRegions(result.map, hs)) <= 1
            /\ (JoinRegions(map, hs) # <<>> => Len(JoinRegions(result.map, hs)) = 1)

C2_Witness ==
    /\ JoinSucceeded
    /\ Len(JoinRegions(map, 0)) >= 2
    /\ Len(JoinRegions(result.map, 0)) = 1


\* s lists exactly the set S, each element once, in ascending (x, y) order
ListsAscending(s, S) == Range(s) = S /\ Len(s) = Cardinality(S) /\ AscendingXY(s)

\* C3: find_positions and entrances, exits, open_ground, room_positions
\* return exactly the positions whose cell satisfies the predicate, each
\* once, in ascending (x, y) order, whatever order the hash map enumerates
\* its entries in.
C3_StableOrder ==
    LET sites == IsValidSite(map, room) IN
    \A hs \in HashSeeds :
        /\ ListsAscending(entrances(map, hs), IsEntrance(map))
        /\ ListsAscending(exits(map, hs), IsExit(map))
        /\ ListsAscending(open_ground(map, hs), IsOpenGround(map))
        /\ ListsAscending(find_positions(map, sites, hs), sites)
        /\ open_ground(map, hs) = open_ground(map, 0)

\* two enumeration orders of the same grid differ before the sort, and the
\* queries have something to return
C3_Witness ==
    /\ \E h1, h2 \in HashSeeds :
           /\ find_positions_unsorted(map, IsOpenGround(map), h1)
                  # find_positions_unsorted(map, IsOpenGround(map), h2)
           /\ ~AscendingXY(find_positions_unsorted(map, IsOpenGround(map), h1))
    /\ entrances(map, 0) # <<>>
    /\ exits(map, 0) # <<>>
    /\ Len(open_ground(map, 0)) >= 3

SameFabric(c, d) ==
    c.terrain = d.terrain /\ c.vault_kind = d.vault_kind /\ c.can_dig = d.can_dig

\* every Interior cell of m1 is in m2 with the same terrain, role and can_dig
InteriorKept(m1, m2) ==
    \A p \in DOMAIN m1 : is_interior(m1[p]) => (p \in DOMAIN m2 /\ SameFabric(m1[p], m2[p]))

\* every undiggable cell of m1 is in m2 and undiggable
UndiggableKept(m1, m2) ==
    \A p \in DOMAIN m1 : ~m1[p].can_dig => (p \in DOMAIN m2 /\ ~m2[p].can_dig)

\* every undiggable cell of m1 is unchanged in m2
UndiggableSame(m1, m2) ==
    \A p \in DOMAIN m1 : ~m1[p].can_dig => (p \in DOMAIN m2 /\ m2[p] = m1[p])

\* the maps the repair is working on: the clone and the open snapshots
Working == (IF pc \in {"join", "tunnel"} THEN {ret} ELSE {})
               \cup {open[q] : q \in DOMAIN open}
               \cup (IF result.some THEN {result.map} ELSE {})

\* C4: in any sequence of legal placements and tunnel repairs a cell marked
\* Interior is never overwritten: its terrain, vault role and can_dig stay.
C4_InteriorKept ==
    [][/\ InteriorKept(map, map')
       /\ \A w \in Working' : InteriorKept(map', w)]_vars

\* a room has been placed after a repair was adopted beside other interior
C4_Witness ==
    /\ pc = "idle"
    /\ \E p \in DOMAIN map : map[p].terrain = "Door"
    /\ \E p \in DOMAIN map : is_interior(map[p]) /\ Sub(p, offset) \notin DOMAIN room
    /\ \E p \in DOMAIN room : is_interior(room[p]) /\ map[Add(offset, p)] = room[p]

\* C5: a defined cell whose can_dig is false never becomes diggable again:
\* place_room_at keeps it undiggable and the repair never changes it.
C5_UndiggableKept ==
    [][/\ UndiggableKept(map, map')
       /\ \A w \in Working' : UndiggableSame(map', w)]_vars

\* place_room_at has written a diggable vault cell on an undiggable cell
C5_Witness ==
    \E p \in DOMAIN room :
        /\ room[p].can_dig
        /\ ~is_bumper(room[p])
        /\ Add(offset, p) \in DOMAIN map
        /\ ~map[Add(offset, p)].can_dig
        /\ map[Add(offset, p)].terrain = room[p].terrain

HasInterior(rm) == \E p \in DOMAIN rm : is_interior(rm[p])

\* C6: after a vault with an Interior cell is stamped with place_room_at at
\* offset O, is_valid_placement of the same vault at O returns false.
C6_Restamp == HasInterior(room) => ~is_valid_placement(map, offset, room)

\* a 3 x 3 vault stamped on the empty base
C6_Witness ==
    /\ room = new_vault(DoorVault).map
    /\ Cardinality({p \in DOMAIN map : is_interior(map[p])}) = 2
    /\ \A p \in DOMAIN room : map[Add(offset, p)] = room[p]

\* the positions can_tunnel is asked about
Probes == ((0 - Margin - 1)..(BaseW + Margin)) \X ((0 - Margin - 1)..(BaseH + Margin))

Target(pos, dir) == Add(pos, DirVec(dir))

\* C7, as stated: can_tunnel(pos, dir) is false whenever the target cell is
\* undefined, undiggable or vault-Interior.
C7_Original ==
    \A pos \in Probes, dir \in Dirs :
        (\/ ~contains(map, Target(pos, dir))
         \/ ~map[Target(pos, dir)].can_dig
         \/ is_interior(map[Target(pos, dir)]))
            => ~can_tunnel(map, pos, dir)

\* C7, amended: can_tunnel(pos, dir) is false whenever the target cell is
\* undefined, or is not walkable and is undiggable or vault-Interior, even
\* if neighbouring cells are open.
C7_BlockedTarget ==
    \A pos \in Probes, dir \in Dirs :
        (\/ ~contains(map, Target(pos, dir))
         \/ /\ ~is_walkable(map[Target(pos, dir)])
            /\ (~map[Target(pos, dir)].can_dig \/ is_interior(map[Target(pos, dir)])))
            => ~can_tunnel(map, pos, dir)

\* a diggable, blocking Interior target whose neighbour pos is open; an
\* undiggable target beside an open cell; an undefined target
C7_Witness ==
    /\ \E pos \in DOMAIN map, dir \in Dirs :
           /\ is_walkable(map[pos])
           /\ contains(map, Target(pos, dir))
           /\ is_interior(map[Target(pos, dir)])
           /\ map[Target(pos, dir)].can_dig
           /\ ~is_walkable(map[Target(pos, dir)])
           /\ ~can_tunnel(map, pos, dir)
    /\ \E pos \in DOMAIN map, dir \in Dirs :
           /\ is_walkable(map[pos])
           /\ contains(map, Target(pos, dir))
           /\ ~map[Target(pos, dir)].can_dig
    /\ \E pos \in DOMAIN map, dir \in Dirs :
           ~contains(map, Target(pos, dir)) /\ ~can_tunnel(map, pos, dir)

\* C8: can_tunnel(pos, dir) is true whenever the target cell is defined and
\* walkable, whatever the current cell, the direction and the flanking cells.
C8_WalkableTarget ==
    \A pos \in Probes, dir \in Dirs :
        (contains(map, Target(pos, dir)) /\ is_walkable(map[Target(pos, dir)]))
            => can_tunnel(map, pos, dir)

\* a walkable target with a walkable flanking cell, entered from a Border
\* cell along the axis that is not fake-isometric
C8_Witness ==
    \E pos \in DOMAIN map, dir \in Dirs :
        /\ contains(map, Target(pos, dir))
        /\ is_walkable(map[Target(pos, dir)])
        /\ is_border(map[pos])
        /\ ~is_fake_isometric(dir)
        /\ \E s \in SideOffsets(dir) :
               contains(map, Add(pos, s)) /\ is_walkable(map[Add(pos, s)])


Walls(m) == {p \in DOMAIN m : m[p].terrain = "Wall"}

Grounds(m) == {p \in DOMAIN m : m[p].terrain = "Ground"}

\* C9, as stated: a w x h room has exactly w * h Ground cells, all Interior,
\* and a Wall ring of exactly 2 * (w + h) cells flagged Border, 4 of which
\* are undiggable.
C9_Original ==
    rpc = "done" =>
        /\ Cardinality(Grounds(rret)) = rw * rh
        /\ \A p \in Grounds(rret) : is_interior(rret[p])
        /\ Cardinality(Walls(rret)) = 2 * (rw + rh)
        /\ \A p \in Walls(rret) : is_border(rret[p])
        /\ Cardinality({p \in Walls(rret) : ~rret[p].can_dig}) = 4

\* C9, amended: a w x h room has exactly w * h Ground cells, all Interior,
\* and a Wall ring of exactly 2 * (w + h) + 4 cells flagged Border: 2 * (w + h)
\* diggable side cells and the 4 undiggable corners; the map holds no other
\* cell, and it is the map new_plain_room(w, h) of the placement model.
C9_PlainRoom ==
    rpc = "done" =>
        /\ Cardinality(Grounds(rret)) = rw * rh
        /\ \A p \in Grounds(rret) : is_interior(rret[p]) /\ rret[p].can_dig
        /\ Cardinality(Walls(rret)) = 2 * (rw + rh) + 4
        /\ \A p \in Walls(rret) : is_border(rret[p])
        /\ {p \in Walls(rret) : ~rret[p].can_dig}
               = {<<-1, -1>>, <<rw, -1>>, <<-1, rh>>, <<rw, rh>>}
        /\ DOMAIN rret = Walls(rret) \cup Grounds(rret)
        /\ rret = new_plain_room(rw, rh)

\* the 4 x 3 room: 12 Ground cells and a ring of 18
C9_Witness ==
    /\ rpc = "done"
    /\ rw = 4
    /\ rh = 3
    /\ Cardinality(Grounds(rret)) = 12
    /\ Cardinality(Walls(rret)) = 18

\* C1: for every seed, two independent constructions Worldgen::new(seed)
\* have identical terrain tables, identical portal tables and identical
\* player-entry locations, whatever order the hash containers iterate in.
C1_Determinism ==
    (wpc = "done" /\ run > 0) =>
        /\ gen.seed = world.seed
        /\ gen.terrain = world.terrain
        /\ gen.portals = world.portals
        /\ gen.player_entry = world.player_entry

\* a second world is complete, built under another iteration order, with
\* dug sectors and portals
C1_Witness ==
    /\ wpc = "done"
    /\ run > 0
    /\ ghs # whs
    /\ gen.seed = world.seed
    /\ world.portals # <<>>
    /\ \E l \in DOMAIN world.terrain : l[3] > 0 /\ world.terrain[l] = "Ground"

StairCalls(kind) == {i \in 1..Len(trace) : trace[i][1] = kind}

\* the cell of the last call of this kind
LastStairs(kind) ==
    LET last == CHOOSE i \in StairCalls(kind) : \A j \in StairCalls(kind) : j <= i
    IN loc(digger.sector, trace[last][2])

\* a panic ends the construction: nothing is returned, nothing is retried
Aborted == wpc = "panic" => (wpc' = "panic" /\ world' = world /\ run' = run)

\* C10 as claimed: a sector is accepted only with exactly one add_up_stairs
\* and exactly one add_down_stairs call; missing stairs abort the generation.
C10_Original ==
    [][/\ (wpc = "dug" /\ wpc' = "sector") =>
              /\ Cardinality(StairCalls("add_up_stairs")) = 1
              /\ Cardinality(StairCalls("add_down_stairs")) = 1
       /\ (wpc = "dug" /\ (StairCalls("add_up_stairs") = {}
                           \/ StairCalls("add_down_stairs") = {})) => wpc' = "panic"
       /\ Aborted]_vars

\* C10: a sector is accepted only with at least one add_up_stairs and at
\* least one add_down_stairs call, the last call of each kind giving the
\* up-portal and the down-portal cell; when the up or the down stairs are
\* missing as the driver returns, generation aborts fatally, no world is
\* returned and nothing is retried.
C10_StairsRequired ==
    [][/\ (wpc = "dug" /\ wpc' = "sector") =>
              /\ StairCalls("add_up_stairs") # {}
              /\ StairCalls("add_down_stairs") # {}
              /\ digger.up_portal = LastStairs("add_up_stairs")
              /\ digger.down_portal = LastStairs("add_down_stairs")
              /\ entrance' = LastStairs("add_down_stairs")
       /\ (wpc = "dug" /\ (StairCalls("add_up_stairs") = {}
                           \/ StairCalls("add_down_stairs") = {})) => wpc' = "panic"
       /\ Aborted]_vars

\* the second sector's driver returned without one of the stairs and the
\* construction, one sector already linked, has aborted
C10_Witness ==
    /\ wpc = "panic"
    /\ depth = 2
    /\ world.portals # <<>>
    /\ trace # <<>>
    /\ trace[Len(trace)][1] = "return"
    /\ StairCalls("add_up_stairs") = {} \/ StairCalls("add_down_stairs") = {}

\* a sector has just been linked: the loop body ends for this depth
SectorLinked == wpc = "dug" /\ wpc' = "sector"

\* C11: world construction links the depths in order, each with a pair of
\* one-way portals: from the entrance above (the surface cave entrance for
\* depth 1, else the previous depth's down stairs) to the sector's up stairs
\* + (1,1), and from the up stairs to that entrance - (1,1); get_portal gives
\* a destination only at a portal origin, so no destination leads back
\* unless a portal of its own was created there.
C11_Links ==
    [][SectorLinked =>
           LET up_stairs == digger.up_portal IN
           /\ depth \in 1..(DepthEnd - 1)
           /\ depth' = depth + 1
           /\ up_stairs[3] = depth
           /\ entrance[3] = depth - 1
           /\ (depth = 1 => entrance = CaveEntrance)
           /\ entrance' = digger.down_portal
           /\ get_portal(world', entrance) = LocAdd(up_stairs, <<1, 1>>)
           /\ get_portal(world', up_stairs) = LocSub(entrance, <<1, 1>>)
           /\ DOMAIN world'.portals = DOMAIN world.portals \cup {entrance, up_stairs}
           /\ \A l \in DOMAIN world.portals \ {entrance, up_stairs} :
                  get_portal(world', l) = get_portal(world, l)
           /\ \A l \in {LocAdd(up_stairs, <<1, 1>>), LocSub(entrance, <<1, 1>>)} :
                  l \notin DOMAIN world.portals \cup {entrance, up_stairs}
                      => get_portal(world', l) = NoLoc]_vars

\* two depths are linked: four portals, the second hanging from the first
\* sector's down stairs
C11_Witness ==
    /\ wpc = "sector"
    /\ depth = 3
    /\ Cardinality(DOMAIN world.portals) = 4
    /\ get_portal(world, CaveEntrance)[3] = 1
    /\ \E l \in DOMAIN world.portals : l[3] = 1 /\ get_portal(world, l)[3] = 2
    /\ \E l \in DOMAIN world.portals : l[3] = 2 /\ get_portal(world, l)[3] = 1

\* the room cells that land on undefined coordinates of m
Outside(m, off, rm) == {p \in DOMAIN rm : ~contains(m, Add(off, p))}

\* ... and those among them that must not: walkable cells and bumpers
OutsideShims(m, off, rm) ==
    {p \in Outside(m, off, rm) : is_walkable(rm[p]) \/ is_bumper(rm[p])}

Restrict(rm, S) == [p \in S |-> rm[p]]

\* C12: is_valid_placement rejects a placement when a walkable vault cell or
\* a bumper maps to an undefined coordinate; a vault cell of any other kind
\* on an undefined coordinate never rejects and has no part in the other
\* checks: the verdict is that of the vault without those cells.
C12_UndefinedTarget ==
    \A rm \in Vaults, off \in Offsets :
        /\ OutsideShims(map, off, rm) # {} => ~is_valid_placement(map, off, rm)
        /\ \A p \in Outside(map, off, rm) \ OutsideShims(map, off, rm) :
               ~PlacementRejects(map, off, rm, p)
        /\ OutsideShims(map, off, rm) = {} =>
               is_valid_placement(map, off, rm)
                   = is_valid_placement(map, off,
                         Restrict(rm, DOMAIN rm \ Outside(map, off, rm)))

\* on a level that holds a room: a vault is accepted with walls hanging
\* outside the grid, one is refused only for its bumper outside, and one
\* with walls outside is refused for what its other cells land on
C12_Witness ==
    /\ \E q \in DOMAIN map : is_interior(map[q])
    /\ \E rm \in Vaults, off \in Offsets :
           /\ is_valid_placement(map, off, rm)
           /\ Outside(map, off, rm) # {}
    /\ \E rm \in Vaults, off \in Offsets :
           /\ OutsideShims(map, off, rm) # {}
           /\ \A p \in OutsideShims(map, off, rm) : is_bumper(rm[p])
           /\ \A p \in DOMAIN rm \ OutsideShims(map, off, rm) :
                  ~PlacementRejects(map, off, rm, p)
    /\ \E rm \in Vaults, off \in Offsets :
           /\ OutsideShims(map, off, rm) = {}
           /\ Outside(map, off, rm) # {}
           /\ ~is_valid_placement(map, off, rm)

\* the room cell at p lands on an existing Interior cell, or is Interior and
\* lands on an existing undiggable cell
Clobbers(m, off, rm, p) ==
    /\ contains(m, Add(off, p))
    /\ \/ is_interior(m[Add(off, p)])
       \/ is_interior(rm[p]) /\ ~m[Add(off, p)].can_dig

\* C13: is_valid_placement rejects a placement when a vault cell of any
\* kind, bumpers included, lands on an existing Interior cell, or when an
\* Interior vault cell lands on an existing undiggable cell.
C13_NoClobber ==
    \A rm \in Vaults, off \in Offsets :
        \A p \in DOMAIN rm :
            Clobbers(map, off, rm, p) =>
                /\ PlacementRejects(map, off, rm, p)
                /\ ~is_valid_placement(map, off, rm)

\* a bumper lands on existing Interior, and an Interior vault cell lands on
\* an undiggable cell that is not Interior
C13_Witness ==
    /\ \E rm \in Vaults, off \in Offsets : \E p \in DOMAIN rm :
           /\ is_bumper(rm[p])
           /\ contains(map, Add(off, p))
           /\ is_interior(map[Add(off, p)])
    /\ \E rm \in Vaults, off \in Offsets : \E p \in DOMAIN rm :
           /\ is_interior(rm[p])
           /\ contains(map, Add(off, p))
           /\ ~map[Add(off, p)].can_dig
           /\ ~is_interior(map[Add(off, p)])

\* a taxicab neighbour of the room cell at p that is no cell of the room
\* maps onto an existing Border cell
BadTouch(m, off, rm, p) ==
    \E n \in taxicab_neighbors(p) :
        /\ ~contains(rm, n)
        /\ contains(m, Add(off, n))
        /\ is_border(m[Add(off, n)])

\* the room cell at p would become a door, next to another door to be
DoorBesideDoor(m, off, rm, p) ==
    /\ contains(m, Add(off, p))
    /\ is_walkable(m[Add(off, p)])
    /\ is_border(rm[p])
    /\ rm[p].can_dig
    /\ \E n \in hex_neighbors(p) :
           /\ contains(rm, n)
           /\ is_border(rm[n])
           /\ rm[n].can_dig
           /\ contains(m, Add(off, n))
           /\ is_walkable(m[Add(off, n)])

\* C14: for a Border vault cell on a defined grid cell: on an existing
\* Border cell the fusion is refused when the terrains differ and passes
\* when they are equal (the adjacency check is skipped); on a cell that is
\* not Border the placement is refused when a taxicab neighbour of the
\* vault cell, not itself in the vault, maps onto an existing Border cell.
C14_BorderRules ==
    \A rm \in Vaults, off \in Offsets :
        \A p \in {q \in DOMAIN rm : is_border(rm[q]) /\ contains(map, Add(off, q))} :
            LET existing == map[Add(off, p)] IN
            /\ (is_border(existing) /\ existing.terrain # rm[p].terrain) =>
                   /\ PlacementRejects(map, off, rm, p)
                   /\ ~is_valid_placement(map, off, rm)
            /\ (is_border(existing) /\ existing.terrain = rm[p].terrain) =>
                   (PlacementRejects(map, off, rm, p) <=> DoorBesideDoor(map, off, rm, p))
            /\ (~is_border(existing) /\ BadTouch(map, off, rm, p)) =>
                   /\ PlacementRejects(map, off, rm, p)
                   /\ ~is_valid_placement(map, off, rm)

\* a wall on an existing border door; a border fused with an equal one while
\* a neighbour outside the vault touches a border; a bad touch beside ground
C14_Witness ==
    /\ \E rm \in Vaults, off \in Offsets : \E p \in DOMAIN rm :
           /\ is_border(rm[p])
           /\ contains(map, Add(off, p))
           /\ is_border(map[Add(off, p)])
           /\ map[Add(off, p)].terrain # rm[p].terrain
    /\ \E rm \in Vaults, off \in Offsets : \E p \in DOMAIN rm :
           /\ is_border(rm[p])
           /\ contains(map, Add(off, p))
           /\ is_border(map[Add(off, p)])
           /\ BadTouch(map, off, rm, p)
           /\ ~PlacementRejects(map, off, rm, p)
    /\ \E rm \in Vaults, off \in Offsets : \E p \in DOMAIN rm :
           /\ is_border(rm[p])
           /\ contains(map, Add(off, p))
           /\ ~is_border(map[Add(off, p)])
           /\ ~is_interior(map[Add(off, p)])
           /\ BadTouch(map, off, rm, p)

\* the cells of the room stamped last that stand as doors in the grid
StampedDoors ==
    {p \in DOMAIN room :
        /\ is_border(room[p])
        /\ room[p].can_dig
        /\ map[Add(offset, p)].terrain = "Door"
        /\ is_border(map[Add(offset, p)])}

Written(off, rm) == {Add(off, p) : p \in {q \in DOMAIN rm : ~is_bumper(rm[q])}}

\* the cell the claim expects at offset + p
ExpectedCell(m, off, rm, p) ==
    LET c == rm[p]
        pos == Add(off, p)
    IN  [terrain |-> IF contains(m, pos) /\ is_walkable(m[pos]) /\ is_border(c) /\ c.can_dig
                     THEN "Door" ELSE c.terrain,
         spawns |-> c.spawns,
         can_dig |-> c.can_dig /\ (contains(m, pos) => m[pos].can_dig),
         vault_kind |-> c.vault_kind]

\* C16: place_room_at(offset, vault) writes exactly one grid cell per
\* non-bumper vault cell, at offset + its position, and changes no other
\* cell; bumpers write nothing; a diggable Border cell on existing walkable
\* terrain is written as a Door; the written can_dig is the vault cell's
\* can_dig AND the existing cell's can_dig where a cell existed.
C16_PlaceFrame ==
    \A rm \in Vaults, off \in Offsets :
        is_valid_placement(map, off, rm) =>
            \A hs \in HashSeeds :
                LET placed == place_room_at(map, off, rm, hs) IN
                /\ DOMAIN placed = DOMAIN map \cup Written(off, rm)
                /\ \A q \in DOMAIN map \ Written(off, rm) : placed[q] = map[q]
                /\ \A p \in DOMAIN rm :
                       ~is_bumper(rm[p]) =>
                           placed[Add(off, p)] = ExpectedCell(map, off, rm, p)

\* legal placements at hand: one that makes a door, one that writes a
\* diggable cell on an undiggable one, one whose bumper lies on a defined cell
C16_Witness ==
    /\ \E rm \in Vaults, off \in Offsets :
           /\ is_valid_placement(map, off, rm)
           /\ \E p \in DOMAIN rm :
                  /\ ExpectedCell(map, off, rm, p).terrain = "Door"
                  /\ rm[p].terrain = "Wall"
    /\ \E rm \in Vaults, off \in Offsets :
           /\ is_valid_placement(map, off, rm)
           /\ \E p \in DOMAIN rm :
                  /\ rm[p].can_dig
                  /\ ~is_bumper(rm[p])
                  /\ contains(map, Add(off, p))
                  /\ ~map[Add(off, p)].can_dig
    /\ \E rm \in Vaults, off \in Offsets :
           /\ is_valid_placement(map, off, rm)
           /\ \E p \in DOMAIN rm :
                  /\ is_bumper(rm[p])
                  /\ map[Add(off, p)] # rm[p]

\* the points of S joined to C by chains of hex-adjacent points of S
RECURSIVE Component(_, _)
Component(S, C) ==
    LET more == {q \in S \ C : hex_neighbors(q) \cap C # {}}
    IN  IF more = {} THEN C ELSE Component(S, C \cup more)

\* C17: separate_regions(S) partitions S into its hex-connected components:
\* the lists are non-empty and pairwise disjoint, their union is S, and two
\* points of S share a list exactly when a chain of hex-adjacent points of S
\* joins them.
C17_Partition ==
    \A hs \in HashSeeds :
        LET S == Floors(map)
            regions == separate_regions(S, hs)
        IN  /\ \A i \in 1..Len(regions) :
                   /\ regions[i] # <<>>
                   /\ Cardinality(Range(regions[i])) = Len(regions[i])
                   /\ \A a \in Range(regions[i]) : Range(regions[i]) = Component(S, {a})
            /\ \A i, j \in 1..Len(regions) :
                   i # j => Range(regions[i]) \cap Range(regions[j]) = {}
            /\ UNION {Range(regions[i]) : i \in 1..Len(regions)} = S

\* two components, one of which holds two points that are not hex-adjacent
C17_Witness ==
    LET regions == separate_regions(Floors(map), 0)
    IN  /\ Len(regions) >= 2
        /\ \E i \in 1..Len(regions) : \E a, b \in Range(regions[i]) :
               a # b /\ b \notin hex_neighbors(a)

\* C18: the result of separate_regions depends only on the input set:
\* whichever point the hash set yields as a seed and in whatever order the
\* frontier is popped, the points of every component are in ascending (x, y)
\* order and the components in ascending lexicographic order of their lists.
C18_StableRegions ==
    LET S == Floors(map) IN
    \A hs \in HashSeeds :
        LET regions == separate_regions(S, hs) IN
        /\ regions = separate_regions(S, 0)
        /\ \A i \in 1..Len(regions) : AscendingXY(regions[i])
        /\ \A i \in 1..(Len(regions) - 1) : LessSeqXY(regions[i], regions[i + 1])

\* the hash states disagree on the order the seeds are drawn in and on the
\* order a component of several points is enumerated in
C18_Witness ==
    LET S == Floors(map) IN
    \E h1, h2 \in HashSeeds :
        /\ RegionLoop(S, <<>>, h1) # RegionLoop(S, <<>>, h2)
        /\ \E i \in 1..Len(separate_regions(S, h1)) :
               LET C == Range(separate_regions(S, h1)[i]) IN
               /\ Cardinality(C) >= 3
               /\ HashIter(C, h1) # HashIter(C, h2)
               /\ HashIter(C, h1) # separate_regions(S, h1)[i]

IsVaultCell(m, p) == contains(m, p) /\ m[p].vault_kind \in {"Interior", "Border"}

\* every point and every hex-neighbour of every point is a vault cell
VaultSurrounded(m, points) ==
    \A p \in Range(points) :
        IsVaultCell(m, p) /\ \A n \in hex_neighbors(p) : IsVaultCell(m, n)

\* every point is a vault cell and every hex-neighbour of every point is
\* off the grid or a vault cell that cannot be dug
Sealed(m, points) ==
    \A p \in Range(points) :
        /\ IsVaultCell(m, p)
        /\ \A n \in hex_neighbors(p) :
               contains(m, n) => (IsVaultCell(m, n) /\ ~m[n].can_dig)

MustDig(m, pos, dir) ==
    ~(contains(m, Target(pos, dir)) /\ is_walkable(m[Target(pos, dir)]))

BorderAt(m, p) == contains(m, p) /\ is_border(m[p])

\* a hex-neighbour of p is a walkable Border cell
DoorNextTo(m, p) == \E n \in hex_neighbors(p) : BorderAt(m, n) /\ is_walkable(m[n])

\* the tests of the target let the step through: the target is defined,
\* diggable and not Interior
Eligible(m, pos, dir) ==
    /\ MustDig(m, pos, dir)
    /\ contains(m, Target(pos, dir))
    /\ m[Target(pos, dir)].can_dig
    /\ ~is_interior(m[Target(pos, dir)])

\* none of the earlier tests of can_tunnel refuses the step: the target is
\* eligible and no side cell is walkable
Diggable(m, pos, dir) ==
    /\ Eligible(m, pos, dir)
    /\ \A s \in SideOffsets(dir) :
           ~(contains(m, Add(pos, s)) /\ is_walkable(m[Add(pos, s)]))

\* C20: for a target that has to be dug, can_tunnel(pos, dir) is false when
\* the target is a Border cell and dir is not fake-isometric, when the target
\* is a Border cell and a hex-neighbour of the target is a walkable Border
\* cell, and when pos is a Border cell and dir is not fake-isometric.
C20_DoorAxis ==
    \A pos \in Probes, dir \in Dirs :
        MustDig(map, pos, dir) =>
            /\ (BorderAt(map, Target(pos, dir)) /\ ~is_fake_isometric(dir))
                   => ~can_tunnel(map, pos, dir)
            /\ (BorderAt(map, Target(pos, dir)) /\ DoorNextTo(map, Target(pos, dir)))
                   => ~can_tunnel(map, pos, dir)
            /\ (BorderAt(map, pos) /\ ~is_fake_isometric(dir))
                   => ~can_tunnel(map, pos, dir)

\* of the three rules only the axis rule applies to a step onto an eligible
\* Border target (the side cells of a North or South step are the four
\* taxicab neighbours of the target, one of which is the floor behind a wall)
AxisRuleApplies ==
    \E pos \in Probes, dir \in Dirs :
        /\ Eligible(map, pos, dir)
        /\ BorderAt(map, Target(pos, dir))
        /\ ~is_fake_isometric(dir)
        /\ ~DoorNextTo(map, Target(pos, dir))
        /\ ~BorderAt(map, pos)

\* the door rule alone refuses a step onto a Border target
DoorRuleDecides ==
    \E pos \in Probes, dir \in Dirs :
        /\ Diggable(map, pos, dir)
        /\ BorderAt(map, Target(pos, dir))
        /\ is_fake_isometric(dir)
        /\ DoorNextTo(map, Target(pos, dir))

\* the exit rule alone refuses a step out of a Border cell
ExitRuleDecides ==
    \E pos \in Probes, dir \in Dirs :
        /\ Diggable(map, pos, dir)
        /\ ~BorderAt(map, Target(pos, dir))
        /\ BorderAt(map, pos)
        /\ ~is_fake_isometric(dir)

\* each of the three rules has a step it applies to, and the door and exit
\* rules refuse steps that every earlier test of can_tunnel lets through
C20_Witness == AxisRuleApplies /\ DoorRuleDecides /\ ExitRuleDecides

\* dig(pos) has nothing to do: pos is undefined, walkable or Interior
DigNoOp(m, pos) == ~contains(m, pos) \/ is_walkable(m[pos]) \/ is_interior(m[pos])

\* C21: dig(pos) leaves the grid unchanged when pos is undefined or its cell
\* is already walkable or Interior; otherwise it turns a Border cell into a
\* Door that keeps its Border role, and any other diggable non-walkable cell
\* into Ground; no cell other than pos is changed.
C21_DigFrame ==
    \A pos \in Probes :
        LET dug == dig(map, pos) IN
        /\ DigNoOp(map, pos) => dug = map
        /\ DOMAIN dug = DOMAIN map
        /\ \A q \in DOMAIN map \ {pos} : dug[q] = map[q]
        /\ (~DigNoOp(map, pos) /\ map[pos].can_dig) =>
               IF is_border(map[pos])
               THEN dug[pos] = [map[pos] EXCEPT !.terrain = "Door"]
               ELSE dug[pos] = new_terrain("Ground")

\* the grid holds a cell of every kind the claim tells apart
C21_Witness ==
    /\ \E pos \in Probes : ~contains(map, pos)
    /\ \E pos \in DOMAIN map : is_walkable(map[pos])
    /\ \E pos \in DOMAIN map : is_interior(map[pos]) /\ ~is_walkable(map[pos])
    /\ \E pos \in DOMAIN map :
           ~DigNoOp(map, pos) /\ map[pos].can_dig /\ is_border(map[pos])
    /\ \E pos \in DOMAIN map :
           ~DigNoOp(map, pos) /\ map[pos].can_dig /\ ~is_border(map[pos])

\* the round of find_tunnel that is due takes a legal step onto p2
ReachesGoal ==
    /\ DOMAIN open # {}
    /\ LET p == NextOpen(open, p2, 0) IN
       \E d \in Dirs :
           /\ Add(p, DirVec(d)) = p2
           /\ p2 \notin closed
           /\ can_tunnel(open[p], p, d)

\* find_tunnel has run out of open nodes
Exhausted == pc = "tunnel" /\ DOMAIN open = {}

\* C22: join_disjoint_regions returns None exactly when find_tunnel fails
\* for the pair of representatives chosen from the first two non-bubble
\* regions of some round, no other pair being tried; find_tunnel returns None
\* exactly when its frontier is exhausted without ever reaching p2; in every
\* other case join_disjoint_regions returns Some grid.
C22_NoneOnFailure ==
    [][/\ (pc # "done" /\ pc' = "done") =>
              IF Exhausted THEN result' = None
              ELSE pc = "join" /\ result' = Some(ret)
       /\ Exhausted => (pc' = "done" /\ result' = None /\ p1' = p1 /\ p2' = p2)
       /\ (pc = "tunnel" /\ ~Exhausted) =>
              IF ReachesGoal
              THEN pc' \in {"join", "panic"} /\ (pc' = "join" => is_walkable(ret'[p2]))
              ELSE pc' \in {"tunnel", "panic"} /\ p1' = p1 /\ p2' = p2
       /\ (pc = "join" /\ pc' = "tunnel") =>
              \E hs \in HashSeeds :
                  /\ Len(JoinRegions(ret, hs)) >= 2
                  /\ p1' \in Range(JoinRegions(ret, hs)[1])
                  /\ p2' \in Range(JoinRegions(ret, hs)[2])]_vars

\* find_tunnel has failed between two regions and None has been returned
C22_Witness ==
    /\ pc = "done"
    /\ result = None
    /\ p1 # p2
    /\ Len(JoinRegions(ret, 0)) >= 2

\* the coordinates at which two grids differ
Diff(a, b) ==
    {c \in DOMAIN a \cup DOMAIN b : c \notin DOMAIN a \/ c \notin DOMAIN b \/ a[c] # b[c]}

\* a path of hex-adjacent walkable cells of m, no cell twice, goes on from
\* cur over the cells of must not yet seen and ends at goal
RECURSIVE PathOver(_, _, _, _, _)
PathOver(m, cur, goal, seen, must) ==
    IF cur = goal THEN must \subseteq seen
    ELSE \E n \in hex_neighbors(cur) \ seen :
             /\ contains(m, n)
             /\ is_walkable(m[n])
             /\ PathOver(m, n, goal, seen \cup {n}, must)

\* C23: when find_tunnel(p1, p2) succeeds, the returned grid differs from
\* the input grid only at cells of one hex-connected path from p1 to p2,
\* every cell of that path is walkable in the result, and no dig made on an
\* abandoned branch appears in it; the input grid itself is not modified.
C23_OnePath ==
    [][/\ (pc = "tunnel" /\ pc' = "join") =>
              /\ contains(ret', p1)
              /\ is_walkable(ret'[p1])
              /\ PathOver(ret', p1, p2, {p1}, Diff(ret, ret'))
       /\ (pc = "tunnel" /\ pc' # "join") => ret' = ret
       /\ pc = "tunnel" => map' = map]_vars

\* find_tunnel is about to return a snapshot that digs two cells or more,
\* while another open snapshot holds a dig the returned one does not have
C23_Witness ==
    /\ pc = "tunnel"
    /\ ReachesGoal
    /\ LET found == TunnelRound(open, closed, p2, 0).map IN
       /\ Cardinality(Diff(ret, found)) >= 2
       /\ \E q \in DOMAIN open : Diff(ret, open[q]) \ Diff(ret, found) # {}

\* the states <<position, grid as dug so far>> one legal step after st
TunnelSteps(st) ==
    {<<Add(st[1], DirVec(d)), dig(st[2], Add(st[1], DirVec(d)))>> :
        d \in {e \in Dirs : can_tunnel(st[2], st[1], e)}}

\* every state that sequences of legal steps lead to
RECURSIVE TunnelStates(_, _)
TunnelStates(frontier, seen) ==
    IF frontier = {} THEN seen
    ELSE LET new == UNION {TunnelSteps(st) : st \in frontier} \ seen
         IN  TunnelStates(new, seen \cup new)

\* some sequence of steps, each legal by can_tunnel on the grid as dug so
\* far, leads from a to b
TunnelExists(m, a, b) ==
    LET start == <<a, dig(m, a)>> IN
    \E st \in TunnelStates({start}, {start}) : st[1] = b

\* C24, as stated: find_tunnel(p1, p2) fails only if no tunnel exists: if
\* any sequence of steps from p1 to p2 is legal step by step by can_tunnel on
\* the grid as dug so far, find_tunnel returns Some grid rather than None.
C24_Original == Exhausted => ~TunnelExists(ret, p1, p2)

\* the coordinates find_tunnel may hold: p1 and the defined cells
Searchable == {p1} \cup DOMAIN ret

\* C25: find_tunnel terminates on every finite grid: the frontier only ever
\* holds p1 and defined coordinates, an expanded coordinate is closed and
\* never re-enters the frontier, so each coordinate is expanded at most once
\* and the loop ends after at most as many rounds as there are defined cells
\* (plus p1).
C25_TunnelEnds ==
    /\ [](pc = "tunnel" =>
              /\ DOMAIN open \subseteq Searchable
              /\ closed \subseteq Searchable
              /\ DOMAIN open \cap closed = {})
    /\ [][(pc = "tunnel" /\ pc' = "tunnel") =>
              /\ closed' = closed \cup {NextOpen(open, p2, 0)}
              /\ NextOpen(open, p2, 0) \notin closed
              /\ Cardinality(closed') <= Cardinality(Searchable)]_vars

\* find_tunnel is in its fourth round or later and still has open nodes
C25_Witness ==
    /\ pc = "tunnel"
    /\ Cardinality(closed) >= 3
    /\ DOMAIN open # {}

\* the number of regions join_disjoint_regions has left to connect in m
RegionCount(m) == Len(JoinRegions(m, 0))

\* C26: join_disjoint_regions terminates on every finite grid: each round
\* in which find_tunnel succeeds strictly reduces the number of non-bubble
\* walkable regions, so the loop reaches at most one region or returns None.
C26_JoinEnds ==
    [][/\ (pc = "tunnel" /\ pc' = "join") => RegionCount(ret') < RegionCount(ret)
       /\ (pc = "join" /\ pc' = "tunnel") => (ret' = ret /\ RegionCount(ret) >= 2)
       /\ (pc = "join" /\ pc' = "done") => (RegionCount(ret) <= 1 /\ result' = Some(ret))
       /\ (pc = "tunnel" /\ pc' = "done") => result' = None]_vars

\* a round has joined two regions and another round is due
C26_Witness ==
    /\ pc = "join"
    /\ RegionCount(ret) >= 2
    /\ RegionCount(ret) < RegionCount(map)

\* m2 has the coordinates of m1 and differs from it only at cells that were
\* non-walkable, diggable and not Interior in m1, now a Door (from a Border
\* cell) or Ground
OnlyDug(m1, m2) ==
    /\ DOMAIN m2 = DOMAIN m1
    /\ \A c \in Diff(m1, m2) :
           /\ ~is_walkable(m1[c])
           /\ m1[c].can_dig
           /\ ~is_interior(m1[c])
           /\ m2[c] = IF is_border(m1[c]) THEN [m1[c] EXCEPT !.terrain = "Door"]
                      ELSE new_terrain("Ground")

\* C27: join_disjoint_regions works on a copy: the receiver grid is left
\* unmodified, the returned grid has exactly the receiver's defined
\* coordinates, and the only cells that differ were non-walkable, diggable
\* and not Interior in the receiver, each a Door (if it was Border) or Ground
\* in the result.
C27_JoinFrame ==
    /\ []((pc = "done" /\ result.some) => OnlyDug(map, result.map))
    /\ [][(pc = "join" \/ pc = "tunnel") => map' = map]_vars

\* a repair has returned a grid with a new door and new ground
C27_Witness ==
    /\ pc = "done"
    /\ result.some
    /\ \E c \in Diff(map, result.map) : result.map[c].terrain = "Door"
    /\ \E c \in Diff(map, result.map) : result.map[c].terrain = "Ground"

\* the walkable Border cells of m
Doors(m) == {c \in DOMAIN m : is_border(m[c]) /\ is_walkable(m[c])}

\* no two walkable Border cells of m are hex-neighbours
DoorsApart(m) == \A c \in Doors(m) : hex_neighbors(c) \cap Doors(m) = {}

\* C28, as stated: starting from a grid without hex-adjacent walkable Border
\* cells, after any sequence of legal placements (place_room_at where
\* is_valid_placement holds) and successful join_disjoint_regions calls, no
\* two walkable Border cells of the grid are hex-neighbours.
C28_Original == DoorsApart(map)

\* every walkable cell of m can be dug
WalkableDiggable(m) == \A c \in DOMAIN m : is_walkable(m[c]) => m[c].can_dig

\* the cells the round of find_tunnel that is due calls dig on
DigTargets ==
    IF pc # "tunnel" \/ DOMAIN open = {} THEN {}
    ELSE LET p == NextOpen(open, p2, 0) IN
         {<<open[p], Add(p, DirVec(d))>> :
             d \in {e \in Dirs : Add(p, DirVec(e)) \notin closed /\ can_tunnel(open[p], p, e)}}

\* C29: the can_dig assertion of dig never fires during connectivity
\* repair: on a grid built from new_base, new_vault or new_plain_room cells
\* by legal place_room_at calls, every cell find_tunnel calls dig on (the
\* start p1 and every target can_tunnel declared legal, walkable targets
\* included) has can_dig = true.
C29_AssertHolds ==
    /\ pc # "panic"
    /\ WalkableDiggable(map)
    /\ \A w \in Working : WalkableDiggable(w)
    /\ \A t \in DigTargets : ~DigAssertFails(t[1], t[2])
    /\ pc = "tunnel" => ~DigAssertFails(ret, p1)

\* a round of find_tunnel is due that digs a new cell and steps on a
\* walkable one, on a grid that holds undiggable cells
C29_Witness ==
    /\ pc = "tunnel"
    /\ \E c \in DOMAIN ret : ~ret[c].can_dig
    /\ \E t \in DigTargets : is_walkable(t[1][t[2]])
    /\ \E t \in DigTargets : ~is_walkable(t[1][t[2]])

\* the cells a call was made on, as locations of the digger's sector
CallLocs(call) == {loc(digger.sector, call[2]), loc(digger.sector, call[3])}

\* the cell carved in front of down stairs at l
Front(l) == LocAdd(l, <<1, 1>>)

SpawnOnGround ==
    \A l \in digger.spawn_region :
        l \in DOMAIN world.terrain /\ world.terrain[l] = "Ground"

\* what one callback does to spawn_region
SpawnStep ==
    LET call == trace'[1]
        before == digger.spawn_region
        after == digger'.spawn_region
    IN IF call[1] = "dig_chamber" THEN after = before \cup CallLocs(call)
       ELSE IF call[1] = "add_down_stairs"
            THEN after = before \ (CallLocs(call) \cup {Front(l) : l \in CallLocs(call)})
            ELSE after = before \ CallLocs(call)

\* C30: after any sequence of dig_chamber, dig_corridor, add_door,
\* add_up_stairs and add_down_stairs, every location of spawn_region has
\* terrain Ground in the terrain table; only dig_chamber adds locations, and
\* a corridor, door or stairs cell and the cell carved in front of the down
\* stairs leave spawn_region with the call that makes them
C30_SpawnOnGround == []SpawnOnGround /\ [][SpawnStep]_vars

\* down stairs were put on a cell whose front cell is one of the cells the
\* callbacks are called on, and a chamber cell is left as a spawn candidate
C30_Witness ==
    /\ trace # <<>>
    /\ trace[1][1] = "add_down_stairs"
    /\ digger.spawn_region # {}
    /\ \E l \in CallLocs(trace[1]) :
           /\ world.terrain[l] = "Gate"
           /\ Front(l) \in {loc(digger.sector, c) : c \in DiggerCells}
           /\ world.terrain[Front(l)] = "Empty"

============================================================================
